------------------------------ MODULE Spec2Model ------------------------------
(***************************************************************************)
(* The scanning and scoring tools of .factory/skills:                      *)
(*                                                                         *)
(*   bcv  aegis-architect/scripts/brazilian_compliance_validator.py         *)
(*   cv   brazilian-fintech-compliance/scripts/compliance-validator.py      *)
(*   pa   aegis-architect/scripts/performance_audit.py                      *)
(*   vpa  aegis-architect/scripts/voice_performance_analyzer.py             *)
(*                                                                         *)
(* A state is one tool object working on one file tree: the tree as the    *)
(* file system lists it, the object's results dictionary, what was last    *)
(* printed, and where the caller stands (constructed, returned from a run, *)
(* printed, exited, or left by an exception).  The directory given on the  *)
(* command line may be missing; only compliance-validator.py looks.        *)
(*                                                                         *)
(* Spec is the tools at work on the trees.  SpecScore is the score         *)
(* calculation of voice_performance_analyzer.py on its own, applied to     *)
(* every result the analyses can leave.  SpecLabel is the overall score,   *)
(* the report and the exit of performance_audit.py on their own, applied   *)
(* to category scores around the bands of the report.                      *)
(*                                                                         *)
(* SpecArch is a fifth tool, taken check by check:                         *)
(*                                                                         *)
(*   av   aegis-architect/scripts/validate_architecture.py                  *)
(*                                                                         *)
(* Its tree is not a listing of entries but what the validator finds in    *)
(* the project directory (Projects).                                       *)
(*                                                                         *)
(* File contents are drawn from a fixed set of texts.  What Python's       *)
(* str.lower, `in`, re.search and re.findall compute on these texts is     *)
(* tabulated below, one table per operation, so that case-sensitive and    *)
(* case-insensitive searches, substring and regular-expression matches     *)
(* stay as different as they are in the code.                              *)
(***************************************************************************)
EXTENDS Integers, Sequences, FiniteSets, TLC

VARIABLES
  root,       \* the directory given on the command line: "dir" or "missing"
  tree,       \* the entries under the root directory, in file-system listing order
  tool,       \* which tool's object this is: "bcv", "cv", "pa", "vpa" or "av"
  args,       \* the arguments of the command line: --check / --target
  pc,         \* "constructed", "returned", "printed", "exited", "raised" or "failed";
              \* "analysed" when the analyses are through and the score is not calculated yet
              \* ("audited" in performance_audit.py), "validating" between the checks of
              \* validate_architecture.py
  results,    \* self.results (self.validation_results in cv)
  runs,       \* how many times the run operation was called on the object
  prints,     \* how many times print_results was called on the object
  first,      \* the results the first run returned
  stdout,     \* the report the last print_results wrote
  exit_code,  \* the exit status of the process; -1 while it runs
  raised      \* the exception that left the last run; "none" if it returned

vars == <<root, tree, tool, args, pc, results, runs, prints, first, stdout, exit_code, raised>>

\* ---- bounds
MaxFiles == 2    \* entries in the tree
MaxRuns == 2     \* calls of the run operation on one object
MaxPrints == 2   \* calls of print_results on one object
MaxFound == 5    \* optimizations found by the analyses of one run

\* ---- the file contents of the bounded universe, and what str.lower() makes of them
contents ==
  [ RICH |-> "// Registro de CONSENTIMENTO (LGPD): data_minimization, data portability, retention\nconst pix_key = cpf; biometric(); fetch('/api/v1/pix/transfer'); // open_banking\ncustomer data, accounts, oauth2 token; aes-256 encryption audit trail, role_based, data masking\ntransaction_log access_control mfa fraud_detection security_monitoring\npreload(); new web worker; cache voice; batch voice; async voice // 500ms\nconst Page = lazy(() => import('./Page')); useQuery({ staleTime: 5 }); useMemo(); try { } catch (e) { console.time('t') }\nsupabase.channel('tx'); channel.unsubscribe(); optimistic update\nresponsive onClick mobile viewport web-vitals srcset font-display: swap layout shift\nnew webkitSpeechRecognition(); detectSpeech(); speechSynthesis.speak(); isListening; silence timeout\nclearInterval(i); clearTimeout(t); cleanup(); dispose(); new AbortController();\ncomponentWillUnmount removeEventListener cancelAnimationFrame removeEventListener removeEventListener\nuseRef(); localStorage.setItem('ttl', 1); pt-BR beleza",
    MID |-> "// consent: data minimization, data portability, retention, security\nconst transaction_id = fraud_detection('pix/transfer'); // open_banking transaction_log\nscope: customer data, accounts, oauth; aes-256 audit trail, role based, data masking // 500ms\nsecurity_monitoring; preload(); web worker; cache voice; batch voice; async voice\nconst Page = lazy(load); supabase.channel('tx'); channel.unsubscribe(); optimistic update\nresponsive onClick web-vitals\nnew webkitSpeechRecognition(); isListening; useRef(); pt-BR",
    CONSENT_UC |-> "const CONSENTIMENTO = registrar(supabase.channel('lgpd'));",
    CONSENT_LC |-> "# Politica de consentimento\nO consentimento e registrado; data_minimization e retention documentados.\nPIX via open_banking com transaction_log; criptografia aes-256.",
    MIGRATION |-> "CREATE TABLE pix_transactions (end_to_end_id text, transaction_id text, pix_key text,\n amount numeric, status text, consentimento boolean, retention int,\n created_at timestamptz, updated_at timestamptz);\nCREATE INDEX idx_tx ON pix_transactions (transaction_id);\nALTER TABLE pix_transactions ENABLE ROW LEVEL SECURITY;",
    VITE |-> "export default { plugins: [react()], server: { port: 3000 } }",
    EMPTY |-> "",
    RICH_lower |-> "// registro de consentimento (lgpd): data_minimization, data portability, retention\nconst pix_key = cpf; biometric(); fetch('/api/v1/pix/transfer'); // open_banking\ncustomer data, accounts, oauth2 token; aes-256 encryption audit trail, role_based, data masking\ntransaction_log access_control mfa fraud_detection security_monitoring\npreload(); new web worker; cache voice; batch voice; async voice // 500ms\nconst page = lazy(() => import('./page')); usequery({ staletime: 5 }); usememo(); try { } catch (e) { console.time('t') }\nsupabase.channel('tx'); channel.unsubscribe(); optimistic update\nresponsive onclick mobile viewport web-vitals srcset font-display: swap layout shift\nnew webkitspeechrecognition(); detectspeech(); speechsynthesis.speak(); islistening; silence timeout\nclearinterval(i); cleartimeout(t); cleanup(); dispose(); new abortcontroller();\ncomponentwillunmount removeeventlistener cancelanimationframe removeeventlistener removeeventlistener\nuseref(); localstorage.setitem('ttl', 1); pt-br beleza",
    MID_lower |-> "// consent: data minimization, data portability, retention, security\nconst transaction_id = fraud_detection('pix/transfer'); // open_banking transaction_log\nscope: customer data, accounts, oauth; aes-256 audit trail, role based, data masking // 500ms\nsecurity_monitoring; preload(); web worker; cache voice; batch voice; async voice\nconst page = lazy(load); supabase.channel('tx'); channel.unsubscribe(); optimistic update\nresponsive onclick web-vitals\nnew webkitspeechrecognition(); islistening; useref(); pt-br",
    CONSENT_UC_lower |-> "const consentimento = registrar(supabase.channel('lgpd'));",
    CONSENT_LC_lower |-> "# politica de consentimento\no consentimento e registrado; data_minimization e retention documentados.\npix via open_banking com transaction_log; criptografia aes-256.",
    MIGRATION_lower |-> "create table pix_transactions (end_to_end_id text, transaction_id text, pix_key text,\n amount numeric, status text, consentimento boolean, retention int,\n created_at timestamptz, updated_at timestamptz);\ncreate index idx_tx on pix_transactions (transaction_id);\nalter table pix_transactions enable row level security;" ]

\* ---- the scanned trees
\* An entry stands for n files (or one directory) that differ in name only:
\* path is relative to the root, ancestors are the directories above it, read
\* is what open(...).read() gives: "ok" or the exception it raises.
Entries ==
  { [path |-> "src/voice/App.tsx", ext |-> "tsx", ancestors |-> {"src", "src/voice"}, n |-> 1, kind |-> "file", read |-> "ok", text |-> contents.RICH],
    [path |-> "src/voice/mid.ts", ext |-> "ts", ancestors |-> {"src", "src/voice"}, n |-> 1, kind |-> "file", read |-> "ok", text |-> contents.MID],
    [path |-> "src/consent.ts", ext |-> "ts", ancestors |-> {"src"}, n |-> 1, kind |-> "file", read |-> "ok", text |-> contents.CONSENT_UC],
    [path |-> "src/broken.ts", ext |-> "ts", ancestors |-> {"src"}, n |-> 50, kind |-> "file", read |-> "UnicodeDecodeError", text |-> contents.EMPTY],
    [path |-> "src/locked.tsx", ext |-> "tsx", ancestors |-> {"src"}, n |-> 1, kind |-> "file", read |-> "PermissionError", text |-> contents.EMPTY],
    [path |-> "src/types.d.ts", ext |-> "ts", ancestors |-> {"src"}, n |-> 1, kind |-> "dir", read |-> "IsADirectoryError", text |-> contents.EMPTY],
    [path |-> "supabase/migrations/1.sql", ext |-> "sql", ancestors |-> {"supabase", "supabase/migrations"}, n |-> 3, kind |-> "file", read |-> "ok", text |-> contents.MIGRATION],
    [path |-> "supabase/migrations/bad.sql", ext |-> "sql", ancestors |-> {"supabase", "supabase/migrations"}, n |-> 1, kind |-> "file", read |-> "UnicodeDecodeError", text |-> contents.EMPTY],
    [path |-> "supabase/migrations", ext |-> "", ancestors |-> {"supabase"}, n |-> 1, kind |-> "dir", read |-> "IsADirectoryError", text |-> contents.EMPTY],
    [path |-> "vite.config.ts", ext |-> "ts", ancestors |-> {}, n |-> 1, kind |-> "file", read |-> "ok", text |-> contents.VITE],
    [path |-> "docs/consent.md", ext |-> "md", ancestors |-> {"docs"}, n |-> 1, kind |-> "file", read |-> "ok", text |-> contents.CONSENT_LC] }

\* ---- the pattern tables the validator keeps as attributes
\* lgpd_patterns of __init__ (compliance-validator.py)
cv_lgpd_patterns ==
  [ consent_management |-> <<"consent", "consentimento", "privacy", "privacidade", "data_subject", "titular_dados", "user_rights", "direitos_titular">>,
    data_minimization |-> <<"data_minimization", "minimizacao_dados", "only_necessary", "purpose_limitation", "limitacao_finalidade">>,
    retention_policies |-> <<"retention", "retencao", "data_retention", "politica_retentao", "data_deletion", "exclusao_dados", "right_to_be_forgotten">>,
    security_measures |-> <<"encryption", "criptografia", "access_control", "controle_acesso", "audit_logging", "registro_auditoria", "security", "seguranca">> ]

\* bcb_patterns of __init__ (compliance-validator.py)
bcb_patterns ==
  [ pix_compliance |-> <<"pix", "instant_payment", "pagamento_instantaneo", "transaction_limits", "limites_transacao", "fraud_detection", "detecao_fraude", "circular_4015">>,
    open_banking |-> <<"open_banking", "banco_aberto", "api_security", "oauth2", "rate_limiting", "api_documentation", "circular_4842">>,
    transaction_logging |-> <<"transaction_log", "registro_transacao", "audit_trail", "financial_audit", "auditoria_financeira", "5_year_retention", "retencao_5_anos">>,
    availability_requirements |-> <<"uptime", "disponibilidade", "sla", "99.9", "high_availability", "alta_disponibilidade", "disaster_recovery", "recuperacao_desastres">> ]

\* security_patterns of __init__ (compliance-validator.py)
cv_security_patterns ==
  [ authentication |-> <<"mfa", "multi_factor", "biometric", "biometria", "device_trust", "confianca_dispositivo", "session_management">>,
    encryption |-> <<"aes-256", "tls_1.3", "end_to_end_encryption", "data_encryption", "criptografia_dados">>,
    fraud_prevention |-> <<"fraud_detection", "behavioral_analysis", "risk_scoring", "anomaly_detection", "transaction_monitoring">>,
    audit_logging |-> <<"audit_log", "security_event", "evento_seguranca", "incident_response", "resposta_incidente">> ]

\* extensions of _collect_source_files (compliance-validator.py)
extensions ==
  <<".py", ".js", ".ts", ".tsx", ".jsx", ".java", ".go", ".rs", ".php">>

\* ---- what Python finds in the texts
\* str.lower() on the contents of the universe
lower_table ==
  (contents.RICH :> contents.RICH_lower) @@ (contents.MID :> contents.MID_lower) @@ (contents.CONSENT_UC :> contents.CONSENT_UC_lower) @@ (contents.CONSENT_LC :> contents.CONSENT_LC_lower) @@ (contents.MIGRATION :> contents.MIGRATION_lower) @@ (contents.VITE :> contents.VITE) @@ (contents.EMPTY :> contents.EMPTY) @@ (contents.RICH_lower :> contents.RICH_lower) @@ (contents.MID_lower :> contents.MID_lower) @@ (contents.CONSENT_UC_lower :> contents.CONSENT_UC_lower) @@ (contents.CONSENT_LC_lower :> contents.CONSENT_LC_lower) @@ (contents.MIGRATION_lower :> contents.MIGRATION_lower)

\* the (pattern, content) pairs for which re.search(pattern, content) finds a match
re_search_hits ==
  { <<"access[_\\s]?control", contents.RICH>>,
    <<"access[_\\s]?control", contents.RICH_lower>>,
    <<"accounts?", contents.RICH>>,
    <<"accounts?", contents.MID>>,
    <<"accounts?", contents.RICH_lower>>,
    <<"accounts?", contents.MID_lower>>,
    <<"aes[-_]?256", contents.RICH>>,
    <<"aes[-_]?256", contents.MID>>,
    <<"aes[-_]?256", contents.CONSENT_LC>>,
    <<"aes[-_]?256", contents.RICH_lower>>,
    <<"aes[-_]?256", contents.MID_lower>>,
    <<"aes[-_]?256", contents.CONSENT_LC_lower>>,
    <<"audit[_\\s]?trail", contents.RICH>>,
    <<"audit[_\\s]?trail", contents.MID>>,
    <<"audit[_\\s]?trail", contents.RICH_lower>>,
    <<"audit[_\\s]?trail", contents.MID_lower>>,
    <<"biometric|biometria", contents.RICH>>,
    <<"biometric|biometria", contents.RICH_lower>>,
    <<"consentimento|consent", contents.MID>>,
    <<"consentimento|consent", contents.CONSENT_LC>>,
    <<"consentimento|consent", contents.MIGRATION>>,
    <<"consentimento|consent", contents.RICH_lower>>,
    <<"consentimento|consent", contents.MID_lower>>,
    <<"consentimento|consent", contents.CONSENT_UC_lower>>,
    <<"consentimento|consent", contents.CONSENT_LC_lower>>,
    <<"consentimento|consent", contents.MIGRATION_lower>>,
    <<"consents?", contents.MID>>,
    <<"consents?", contents.CONSENT_LC>>,
    <<"consents?", contents.MIGRATION>>,
    <<"consents?", contents.RICH_lower>>,
    <<"consents?", contents.MID_lower>>,
    <<"consents?", contents.CONSENT_UC_lower>>,
    <<"consents?", contents.CONSENT_LC_lower>>,
    <<"consents?", contents.MIGRATION_lower>>,
    <<"cpf|cnpj", contents.RICH>>,
    <<"cpf|cnpj", contents.RICH_lower>>,
    <<"criptografia", contents.CONSENT_LC>>,
    <<"criptografia", contents.CONSENT_LC_lower>>,
    <<"customer[_\\s]?data", contents.RICH>>,
    <<"customer[_\\s]?data", contents.MID>>,
    <<"customer[_\\s]?data", contents.RICH_lower>>,
    <<"customer[_\\s]?data", contents.MID_lower>>,
    <<"data[_\\s]?masking", contents.RICH>>,
    <<"data[_\\s]?masking", contents.MID>>,
    <<"data[_\\s]?masking", contents.RICH_lower>>,
    <<"data[_\\s]?masking", contents.MID_lower>>,
    <<"data[_\\s]?minimization", contents.RICH>>,
    <<"data[_\\s]?minimization", contents.MID>>,
    <<"data[_\\s]?minimization", contents.CONSENT_LC>>,
    <<"data[_\\s]?minimization", contents.RICH_lower>>,
    <<"data[_\\s]?minimization", contents.MID_lower>>,
    <<"data[_\\s]?minimization", contents.CONSENT_LC_lower>>,
    <<"data[_\\s]?portability", contents.RICH>>,
    <<"data[_\\s]?portability", contents.MID>>,
    <<"data[_\\s]?portability", contents.RICH_lower>>,
    <<"data[_\\s]?portability", contents.MID_lower>>,
    <<"encry", contents.RICH>>,
    <<"encry", contents.RICH_lower>>,
    <<"encrypt", contents.RICH>>,
    <<"encrypt", contents.RICH_lower>>,
    <<"end[_\\s]?to[_\\s]?end[_\\s]?id", contents.MIGRATION>>,
    <<"end[_\\s]?to[_\\s]?end[_\\s]?id", contents.MIGRATION_lower>>,
    <<"fraud[_\\s]?detection", contents.RICH>>,
    <<"fraud[_\\s]?detection", contents.MID>>,
    <<"fraud[_\\s]?detection", contents.RICH_lower>>,
    <<"fraud[_\\s]?detection", contents.MID_lower>>,
    <<"lgpd|lei[_\\s]?geral", contents.CONSENT_UC>>,
    <<"lgpd|lei[_\\s]?geral", contents.RICH_lower>>,
    <<"lgpd|lei[_\\s]?geral", contents.CONSENT_UC_lower>>,
    <<"log[_\\s]?access", contents.RICH>>,
    <<"log[_\\s]?access", contents.RICH_lower>>,
    <<"oauth|oauth2", contents.RICH>>,
    <<"oauth|oauth2", contents.MID>>,
    <<"oauth|oauth2", contents.RICH_lower>>,
    <<"oauth|oauth2", contents.MID_lower>>,
    <<"pix[_\\s]?key", contents.RICH>>,
    <<"pix[_\\s]?key", contents.MIGRATION>>,
    <<"pix[_\\s]?key", contents.RICH_lower>>,
    <<"pix[_\\s]?key", contents.MIGRATION_lower>>,
    <<"role[_\\s]?based", contents.RICH>>,
    <<"role[_\\s]?based", contents.MID>>,
    <<"role[_\\s]?based", contents.RICH_lower>>,
    <<"role[_\\s]?based", contents.MID_lower>>,
    <<"scope", contents.MID>>,
    <<"scope", contents.MID_lower>>,
    <<"token", contents.RICH>>,
    <<"token", contents.RICH_lower>>,
    <<"transaction[_\\s]?id", contents.MID>>,
    <<"transaction[_\\s]?id", contents.MIGRATION>>,
    <<"transaction[_\\s]?id", contents.MID_lower>>,
    <<"transaction[_\\s]?id", contents.MIGRATION_lower>>,
    <<"transactions", contents.MIGRATION>>,
    <<"transactions", contents.MIGRATION_lower>> }

\* the pairs for which re.search(pattern, content, re.IGNORECASE) finds a match
re_search_ignorecase_hits ==
  { <<"/api/v1/pix/", contents.RICH>>,
    <<"/api/v1/pix/", contents.RICH_lower>>,
    <<"500ms|<.*500.*ms|voice.*response.*time", contents.RICH>>,
    <<"500ms|<.*500.*ms|voice.*response.*time", contents.MID>>,
    <<"500ms|<.*500.*ms|voice.*response.*time", contents.RICH_lower>>,
    <<"500ms|<.*500.*ms|voice.*response.*time", contents.MID_lower>>,
    <<"ENABLE ROW LEVEL SECURITY", contents.MIGRATION>>,
    <<"ENABLE ROW LEVEL SECURITY", contents.MIGRATION_lower>>,
    <<"SpeechRecognition", contents.RICH>>,
    <<"SpeechRecognition", contents.MID>>,
    <<"SpeechRecognition", contents.RICH_lower>>,
    <<"SpeechRecognition", contents.MID_lower>>,
    <<"async.*voice|voice.*async", contents.RICH>>,
    <<"async.*voice|voice.*async", contents.MID>>,
    <<"async.*voice|voice.*async", contents.RICH_lower>>,
    <<"async.*voice|voice.*async", contents.MID_lower>>,
    <<"batch.*voice|voice.*batch", contents.RICH>>,
    <<"batch.*voice|voice.*batch", contents.MID>>,
    <<"batch.*voice|voice.*batch", contents.RICH_lower>>,
    <<"batch.*voice|voice.*batch", contents.MID_lower>>,
    <<"cache.*voice|voice.*cache", contents.RICH>>,
    <<"cache.*voice|voice.*cache", contents.MID>>,
    <<"cache.*voice|voice.*cache", contents.RICH_lower>>,
    <<"cache.*voice|voice.*cache", contents.MID_lower>>,
    <<"channel.*unsubscribe|cleanup.*subscription", contents.RICH>>,
    <<"channel.*unsubscribe|cleanup.*subscription", contents.MID>>,
    <<"channel.*unsubscribe|cleanup.*subscription", contents.RICH_lower>>,
    <<"channel.*unsubscribe|cleanup.*subscription", contents.MID_lower>>,
    <<"detectSpeech", contents.RICH>>,
    <<"detectSpeech", contents.RICH_lower>>,
    <<"font.*display.*swap", contents.RICH>>,
    <<"font.*display.*swap", contents.RICH_lower>>,
    <<"isListening", contents.RICH>>,
    <<"isListening", contents.MID>>,
    <<"isListening", contents.RICH_lower>>,
    <<"isListening", contents.MID_lower>>,
    <<"layout.*shift|layout.*stability", contents.RICH>>,
    <<"layout.*shift|layout.*stability", contents.RICH_lower>>,
    <<"lazy\\s*\\(", contents.RICH>>,
    <<"lazy\\s*\\(", contents.MID>>,
    <<"lazy\\s*\\(", contents.RICH_lower>>,
    <<"lazy\\s*\\(", contents.MID_lower>>,
    <<"mobile.*viewport|viewport.*scale", contents.RICH>>,
    <<"mobile.*viewport|viewport.*scale", contents.RICH_lower>>,
    <<"onClick|onTouch", contents.RICH>>,
    <<"onClick|onTouch", contents.MID>>,
    <<"onClick|onTouch", contents.RICH_lower>>,
    <<"onClick|onTouch", contents.MID_lower>>,
    <<"optimistic.*update", contents.RICH>>,
    <<"optimistic.*update", contents.MID>>,
    <<"optimistic.*update", contents.RICH_lower>>,
    <<"optimistic.*update", contents.MID_lower>>,
    <<"pix/transfer", contents.RICH>>,
    <<"pix/transfer", contents.MID>>,
    <<"pix/transfer", contents.RICH_lower>>,
    <<"pix/transfer", contents.MID_lower>>,
    <<"preload|precache", contents.RICH>>,
    <<"preload|precache", contents.MID>>,
    <<"preload|precache", contents.RICH_lower>>,
    <<"preload|precache", contents.MID_lower>>,
    <<"responsive|mobile|tablet", contents.RICH>>,
    <<"responsive|mobile|tablet", contents.MID>>,
    <<"responsive|mobile|tablet", contents.RICH_lower>>,
    <<"responsive|mobile|tablet", contents.MID_lower>>,
    <<"silence.*timeout", contents.RICH>>,
    <<"silence.*timeout", contents.RICH_lower>>,
    <<"speak\\(\\)", contents.RICH>>,
    <<"speak\\(\\)", contents.RICH_lower>>,
    <<"speechSynthesis", contents.RICH>>,
    <<"speechSynthesis", contents.RICH_lower>>,
    <<"srcset|sizes", contents.RICH>>,
    <<"srcset|sizes", contents.RICH_lower>>,
    <<"supabase.*channel", contents.RICH>>,
    <<"supabase.*channel", contents.MID>>,
    <<"supabase.*channel", contents.CONSENT_UC>>,
    <<"supabase.*channel", contents.RICH_lower>>,
    <<"supabase.*channel", contents.MID_lower>>,
    <<"supabase.*channel", contents.CONSENT_UC_lower>>,
    <<"useQuery.*staleTime", contents.RICH>>,
    <<"useQuery.*staleTime", contents.RICH_lower>>,
    <<"web[-_]?vitals", contents.RICH>>,
    <<"web[-_]?vitals", contents.MID>>,
    <<"web[-_]?vitals", contents.RICH_lower>>,
    <<"web[-_]?vitals", contents.MID_lower>>,
    <<"web[\\s_-]?worker|worker[\\s_-]?thread", contents.RICH>>,
    <<"web[\\s_-]?worker|worker[\\s_-]?thread", contents.MID>>,
    <<"web[\\s_-]?worker|worker[\\s_-]?thread", contents.RICH_lower>>,
    <<"web[\\s_-]?worker|worker[\\s_-]?thread", contents.MID_lower>>,
    <<"webkitSpeechRecognition", contents.RICH>>,
    <<"webkitSpeechRecognition", contents.MID>>,
    <<"webkitSpeechRecognition", contents.RICH_lower>>,
    <<"webkitSpeechRecognition", contents.MID_lower>> }

\* the (needle, content) pairs for which `needle in content` holds
str_contains_hits ==
  { <<"CREATE INDEX", contents.MIGRATION>>,
    <<"access_control", contents.RICH>>,
    <<"access_control", contents.RICH_lower>>,
    <<"aes-256", contents.RICH>>,
    <<"aes-256", contents.MID>>,
    <<"aes-256", contents.CONSENT_LC>>,
    <<"aes-256", contents.RICH_lower>>,
    <<"aes-256", contents.MID_lower>>,
    <<"aes-256", contents.CONSENT_LC_lower>>,
    <<"amount", contents.MIGRATION>>,
    <<"amount", contents.MIGRATION_lower>>,
    <<"audit", contents.RICH>>,
    <<"audit", contents.MID>>,
    <<"audit", contents.RICH_lower>>,
    <<"audit", contents.MID_lower>>,
    <<"biometric", contents.RICH>>,
    <<"biometric", contents.RICH_lower>>,
    <<"consent", contents.MID>>,
    <<"consent", contents.CONSENT_LC>>,
    <<"consent", contents.MIGRATION>>,
    <<"consent", contents.RICH_lower>>,
    <<"consent", contents.MID_lower>>,
    <<"consent", contents.CONSENT_UC_lower>>,
    <<"consent", contents.CONSENT_LC_lower>>,
    <<"consent", contents.MIGRATION_lower>>,
    <<"consentimento", contents.CONSENT_LC>>,
    <<"consentimento", contents.MIGRATION>>,
    <<"consentimento", contents.RICH_lower>>,
    <<"consentimento", contents.CONSENT_UC_lower>>,
    <<"consentimento", contents.CONSENT_LC_lower>>,
    <<"consentimento", contents.MIGRATION_lower>>,
    <<"created_at", contents.MIGRATION>>,
    <<"created_at", contents.MIGRATION_lower>>,
    <<"criptografia", contents.CONSENT_LC>>,
    <<"criptografia", contents.CONSENT_LC_lower>>,
    <<"data_minimization", contents.RICH>>,
    <<"data_minimization", contents.CONSENT_LC>>,
    <<"data_minimization", contents.RICH_lower>>,
    <<"data_minimization", contents.CONSENT_LC_lower>>,
    <<"encryption", contents.RICH>>,
    <<"encryption", contents.RICH_lower>>,
    <<"end_to_end_id", contents.MIGRATION>>,
    <<"end_to_end_id", contents.MIGRATION_lower>>,
    <<"fraud_detection", contents.RICH>>,
    <<"fraud_detection", contents.MID>>,
    <<"fraud_detection", contents.RICH_lower>>,
    <<"fraud_detection", contents.MID_lower>>,
    <<"mfa", contents.RICH>>,
    <<"mfa", contents.RICH_lower>>,
    <<"oauth2", contents.RICH>>,
    <<"oauth2", contents.RICH_lower>>,
    <<"open_banking", contents.RICH>>,
    <<"open_banking", contents.MID>>,
    <<"open_banking", contents.CONSENT_LC>>,
    <<"open_banking", contents.RICH_lower>>,
    <<"open_banking", contents.MID_lower>>,
    <<"open_banking", contents.CONSENT_LC_lower>>,
    <<"pix", contents.RICH>>,
    <<"pix", contents.MID>>,
    <<"pix", contents.MIGRATION>>,
    <<"pix", contents.RICH_lower>>,
    <<"pix", contents.MID_lower>>,
    <<"pix", contents.CONSENT_LC_lower>>,
    <<"pix", contents.MIGRATION_lower>>,
    <<"pix_key", contents.RICH>>,
    <<"pix_key", contents.MIGRATION>>,
    <<"pix_key", contents.RICH_lower>>,
    <<"pix_key", contents.MIGRATION_lower>>,
    <<"pix_transactions", contents.MIGRATION>>,
    <<"pix_transactions", contents.MIGRATION_lower>>,
    <<"retention", contents.RICH>>,
    <<"retention", contents.MID>>,
    <<"retention", contents.CONSENT_LC>>,
    <<"retention", contents.MIGRATION>>,
    <<"retention", contents.RICH_lower>>,
    <<"retention", contents.MID_lower>>,
    <<"retention", contents.CONSENT_LC_lower>>,
    <<"retention", contents.MIGRATION_lower>>,
    <<"role_based", contents.RICH>>,
    <<"role_based", contents.RICH_lower>>,
    <<"security", contents.RICH>>,
    <<"security", contents.MID>>,
    <<"security", contents.RICH_lower>>,
    <<"security", contents.MID_lower>>,
    <<"security", contents.MIGRATION_lower>>,
    <<"security_monitoring", contents.RICH>>,
    <<"security_monitoring", contents.MID>>,
    <<"security_monitoring", contents.RICH_lower>>,
    <<"security_monitoring", contents.MID_lower>>,
    <<"status", contents.MIGRATION>>,
    <<"status", contents.MIGRATION_lower>>,
    <<"transaction_id", contents.MID>>,
    <<"transaction_id", contents.MIGRATION>>,
    <<"transaction_id", contents.MID_lower>>,
    <<"transaction_id", contents.MIGRATION_lower>>,
    <<"transaction_log", contents.RICH>>,
    <<"transaction_log", contents.MID>>,
    <<"transaction_log", contents.CONSENT_LC>>,
    <<"transaction_log", contents.RICH_lower>>,
    <<"transaction_log", contents.MID_lower>>,
    <<"transaction_log", contents.CONSENT_LC_lower>>,
    <<"transactions", contents.MIGRATION>>,
    <<"transactions", contents.MIGRATION_lower>>,
    <<"updated_at", contents.MIGRATION>>,
    <<"updated_at", contents.MIGRATION_lower>> }

\* len(re.findall(pattern, content, re.IGNORECASE)) where it is not 0
re_findall_ignorecase_counts ==
  (<<"TTL|ttl", contents.RICH>> :> 1)
  @@ (<<"TTL|ttl", contents.RICH_lower>> :> 1)
  @@ (<<"abortController", contents.RICH>> :> 1)
  @@ (<<"abortController", contents.RICH_lower>> :> 1)
  @@ (<<"async", contents.RICH>> :> 1)
  @@ (<<"async", contents.MID>> :> 1)
  @@ (<<"async", contents.RICH_lower>> :> 1)
  @@ (<<"async", contents.MID_lower>> :> 1)
  @@ (<<"beleza", contents.RICH>> :> 1)
  @@ (<<"beleza", contents.RICH_lower>> :> 1)
  @@ (<<"cache.*voice", contents.RICH>> :> 1)
  @@ (<<"cache.*voice", contents.MID>> :> 1)
  @@ (<<"cache.*voice", contents.RICH_lower>> :> 1)
  @@ (<<"cache.*voice", contents.MID_lower>> :> 1)
  @@ (<<"cache\\(|Map\\(|localStorage", contents.RICH>> :> 1)
  @@ (<<"cache\\(|Map\\(|localStorage", contents.RICH_lower>> :> 1)
  @@ (<<"cancelAnimationFrame", contents.RICH>> :> 1)
  @@ (<<"cancelAnimationFrame", contents.RICH_lower>> :> 1)
  @@ (<<"centro[-_]?oeste|co", contents.RICH>> :> 9)
  @@ (<<"centro[-_]?oeste|co", contents.MID>> :> 6)
  @@ (<<"centro[-_]?oeste|co", contents.CONSENT_UC>> :> 2)
  @@ (<<"centro[-_]?oeste|co", contents.CONSENT_LC>> :> 3)
  @@ (<<"centro[-_]?oeste|co", contents.MIGRATION>> :> 1)
  @@ (<<"centro[-_]?oeste|co", contents.RICH_lower>> :> 9)
  @@ (<<"centro[-_]?oeste|co", contents.MID_lower>> :> 6)
  @@ (<<"centro[-_]?oeste|co", contents.CONSENT_UC_lower>> :> 2)
  @@ (<<"centro[-_]?oeste|co", contents.CONSENT_LC_lower>> :> 3)
  @@ (<<"centro[-_]?oeste|co", contents.MIGRATION_lower>> :> 1)
  @@ (<<"cleanup", contents.RICH>> :> 1)
  @@ (<<"cleanup", contents.RICH_lower>> :> 1)
  @@ (<<"clearInterval", contents.RICH>> :> 1)
  @@ (<<"clearInterval", contents.RICH_lower>> :> 1)
  @@ (<<"clearTimeout", contents.RICH>> :> 1)
  @@ (<<"clearTimeout", contents.RICH_lower>> :> 1)
  @@ (<<"componentWillUnmount", contents.RICH>> :> 1)
  @@ (<<"componentWillUnmount", contents.RICH_lower>> :> 1)
  @@ (<<"console\\.time", contents.RICH>> :> 1)
  @@ (<<"console\\.time", contents.RICH_lower>> :> 1)
  @@ (<<"dispose", contents.RICH>> :> 1)
  @@ (<<"dispose", contents.RICH_lower>> :> 1)
  @@ (<<"memo", contents.RICH>> :> 1)
  @@ (<<"memo", contents.RICH_lower>> :> 1)
  @@ (<<"nordeste|ne", contents.RICH>> :> 9)
  @@ (<<"nordeste|ne", contents.MID>> :> 3)
  @@ (<<"nordeste|ne", contents.CONSENT_UC>> :> 1)
  @@ (<<"nordeste|ne", contents.RICH_lower>> :> 9)
  @@ (<<"nordeste|ne", contents.MID_lower>> :> 3)
  @@ (<<"nordeste|ne", contents.CONSENT_UC_lower>> :> 1)
  @@ (<<"pix|PIX", contents.RICH>> :> 2)
  @@ (<<"pix|PIX", contents.MID>> :> 1)
  @@ (<<"pix|PIX", contents.CONSENT_LC>> :> 1)
  @@ (<<"pix|PIX", contents.MIGRATION>> :> 4)
  @@ (<<"pix|PIX", contents.RICH_lower>> :> 2)
  @@ (<<"pix|PIX", contents.MID_lower>> :> 1)
  @@ (<<"pix|PIX", contents.CONSENT_LC_lower>> :> 1)
  @@ (<<"pix|PIX", contents.MIGRATION_lower>> :> 4)
  @@ (<<"pt[-_]?BR", contents.RICH>> :> 1)
  @@ (<<"pt[-_]?BR", contents.MID>> :> 1)
  @@ (<<"pt[-_]?BR", contents.RICH_lower>> :> 1)
  @@ (<<"pt[-_]?BR", contents.MID_lower>> :> 1)
  @@ (<<"removeEventListener", contents.RICH>> :> 3)
  @@ (<<"removeEventListener", contents.RICH_lower>> :> 3)
  @@ (<<"s[aã]o.*paulo|sp", contents.RICH>> :> 7)
  @@ (<<"s[aã]o.*paulo|sp", contents.MID>> :> 2)
  @@ (<<"s[aã]o.*paulo|sp", contents.RICH_lower>> :> 7)
  @@ (<<"s[aã]o.*paulo|sp", contents.MID_lower>> :> 2)
  @@ (<<"staleTime", contents.RICH>> :> 1)
  @@ (<<"staleTime", contents.RICH_lower>> :> 1)
  @@ (<<"timeout", contents.RICH>> :> 2)
  @@ (<<"timeout", contents.RICH_lower>> :> 2)
  @@ (<<"try.*catch", contents.RICH>> :> 1)
  @@ (<<"try.*catch", contents.RICH_lower>> :> 1)
  @@ (<<"unsubscribe", contents.RICH>> :> 1)
  @@ (<<"unsubscribe", contents.MID>> :> 1)
  @@ (<<"unsubscribe", contents.RICH_lower>> :> 1)
  @@ (<<"unsubscribe", contents.MID_lower>> :> 1)
  @@ (<<"useMemo", contents.RICH>> :> 1)
  @@ (<<"useMemo", contents.RICH_lower>> :> 1)
  @@ (<<"useQuery", contents.RICH>> :> 1)
  @@ (<<"useQuery", contents.RICH_lower>> :> 1)
  @@ (<<"useRef", contents.RICH>> :> 1)
  @@ (<<"useRef", contents.MID>> :> 1)
  @@ (<<"useRef", contents.RICH_lower>> :> 1)
  @@ (<<"useRef", contents.MID_lower>> :> 1)

\* the (keyword, path) pairs for which `keyword in str(file_path).lower()` holds;
\* the path of the root directory is taken to hold none of the keywords
path_keyword_hits ==
  { <<"voice", "src/voice/App.tsx">>,
    <<"voice", "src/voice/mid.ts">> }
\* ---- Python's string and regular-expression operations on the texts

\* content.lower()
lower(content) == lower_table[content]

\* re.search(pattern, content) is not None
re_search(pattern, content) == <<pattern, content>> \in re_search_hits

\* re.search(pattern, content, re.IGNORECASE) is not None
re_search_ignorecase(pattern, content) == <<pattern, content>> \in re_search_ignorecase_hits

\* needle in content
str_contains(needle, content) == <<needle, content>> \in str_contains_hits

\* the (pattern, content) pairs for which re.findall finds something
re_findall_hits == DOMAIN re_findall_ignorecase_counts

\* len(re.findall(pattern, content, re.IGNORECASE))
re_findall_count(pattern, content) ==
  IF <<pattern, content>> \in re_findall_hits
  THEN re_findall_ignorecase_counts[<<pattern, content>>] ELSE 0

\* any(re.search(pattern, content) for pattern in patterns)
any_re_search(patterns, content) ==
  \E i \in DOMAIN patterns : re_search(patterns[i], content)

\* any(re.search(pattern, content, re.IGNORECASE) for pattern in patterns)
any_re_search_ignorecase(patterns, content) ==
  \E i \in DOMAIN patterns : re_search_ignorecase(patterns[i], content)

RECURSIVE Sum(_)
Sum(s) == IF s = <<>> THEN 0 ELSE Head(s) + Sum(Tail(s))

Min(a, b) == IF a <= b THEN a ELSE b
Max(a, b) == IF a >= b THEN a ELSE b

\* a list that holds msg when cond holds: `if cond: list.append(msg)`
When(cond, msg) == IF cond THEN <<msg>> ELSE <<>>

\* ---- the file system under the root directory

\* The trees of the model: at most MaxFiles entries, none listed twice.
Trees ==
  UNION { { s \in [1..k -> Entries] : \A i, j \in 1..k : i # j => s[i] # s[j] } : k \in 0..MaxFiles }

\* (self.directory / p).exists()
exists(t, p) == \E i \in DOMAIN t : t[i].path = p \/ p \in t[i].ancestors

\* self.directory.rglob('*.' + ext): files and directories alike, in listing order
rglob(t, ext) == SelectSeq(t, LAMBDA e : e.ext = ext)

\* migrations_dir.glob('*.sql')
glob_migrations(t) ==
  SelectSeq(t, LAMBDA e : e.ext = "sql" /\ "supabase/migrations" \in e.ancestors)

\* file_path.is_file()
is_file(e) == e.kind = "file"

\* what `with open(file_path, 'r', encoding='utf-8') as f: f.read()` does:
\* "ok" (the text is read) or the exception raised
read_outcome(e) == IF e.kind = "dir" THEN "IsADirectoryError" ELSE e.read

\* the exceptions `except (UnicodeDecodeError, PermissionError): continue` swallows
DecodeOrPermission == {"UnicodeDecodeError", "PermissionError"}

\* The first exception that leaves a loop which reads every file of `files` in
\* order and swallows the exceptions in `caught`; "none" when the loop completes.
RECURSIVE first_uncaught(_, _)
first_uncaught(files, caught) ==
  IF files = <<>> THEN "none"
  ELSE IF read_outcome(Head(files)) \notin caught \cup {"ok"} THEN read_outcome(Head(files))
  ELSE first_uncaught(Tail(files), caught)

\* the files of `files` whose text a guarded loop gets to evaluate
readable(files) == SelectSeq(files, LAMBDA e : read_outcome(e) = "ok")

\* ======================================================================
\* brazilian_compliance_validator.py
\* ======================================================================

\* the keys of results['brazilian_compliance'], in dictionary order
bcv_categories == <<"lgpd", "pix", "openbanking", "security">>

\* BrazilianComplianceValidator.__init__: self.results
bcv_new ==
  [ valid |-> TRUE, compliance_score |-> 0, errors |-> <<>>, warnings |-> <<>>,
    recommendations |-> <<>>, checks_performed |-> <<>>,
    brazilian_compliance |->
      [c \in {"lgpd", "pix", "openbanking", "security"} |-> [score |-> 0, issues |-> <<>>]] ]

\* the pass threshold of the category warnings and of the overall validity
bcv_threshold == 70

\* list(self.directory.rglob('*.ts')) + list(self.directory.rglob('*.tsx'))
code_files(t) == rglob(t, "ts") \o rglob(t, "tsx")

\* the exception that leaves one of the `for file_path in code_files` loops
code_files_error(t) == first_uncaught(code_files(t), DecodeOrPermission)

\* supabase_dir.exists() and migrations_dir.exists()
migrations_dir_exists(t) == exists(t, "supabase") /\ exists(t, "supabase/migrations")

\* the exception that leaves an unguarded `for migration_file in ...glob('*.sql')` loop
\* that reads every file
migrations_error(t) ==
  IF migrations_dir_exists(t) THEN first_uncaught(glob_migrations(t), {}) ELSE "none"

\* some readable code file's lowered content matches one of the patterns
code_matches(t, patterns) ==
  \E i \in DOMAIN code_files(t) :
    /\ read_outcome(code_files(t)[i]) = "ok"
    /\ any_re_search(patterns, lower(code_files(t)[i].text))

\* _check_rls_implementation: "True", "False", or the exception that leaves it
RECURSIVE rls_scan(_, _)
rls_scan(rls_patterns, files) ==
  IF files = <<>> THEN "False"
  ELSE LET e == Head(files) IN
       IF read_outcome(e) = "ok"
       THEN IF any_re_search_ignorecase(rls_patterns, e.text) THEN "True" ELSE rls_scan(rls_patterns, Tail(files))
       ELSE IF read_outcome(e) \in DecodeOrPermission THEN rls_scan(rls_patterns, Tail(files))
       ELSE read_outcome(e)

_check_rls_implementation(t) ==
  LET rls_patterns == <<"ENABLE ROW LEVEL SECURITY", "CREATE POLICY", "auth\\.uid\\(\\)">>
  IN
  IF ~exists(t, "supabase") THEN "False"
  ELSE IF ~exists(t, "supabase/migrations") THEN "False"
  ELSE rls_scan(rls_patterns, glob_migrations(t))

\* _search_in_code(pattern): "True", "False", or the exception that leaves it
RECURSIVE search_scan(_, _)
search_scan(pattern, files) ==
  IF files = <<>> THEN "False"
  ELSE LET e == Head(files) IN
       IF read_outcome(e) = "ok"
       THEN IF re_search_ignorecase(pattern, e.text) THEN "True" ELSE search_scan(pattern, Tail(files))
       ELSE IF read_outcome(e) \in DecodeOrPermission THEN search_scan(pattern, Tail(files))
       ELSE read_outcome(e)

_search_in_code(t, pattern) == search_scan(pattern, code_files(t))

\* the points one migration file adds to lgpd_score (lines 106-118)
lgpd_migration_points(e) ==
  LET content == lower(e.text) IN
    (IF str_contains("consentimento", content) \/ str_contains("data_processing_consent", content)
     THEN 10 ELSE 0)
  + (IF str_contains("retention", content) \/ str_contains("expira", content) THEN 10 ELSE 0)
  + (IF str_contains("created_at", content) /\ str_contains("updated_at", content) THEN 5 ELSE 0)

\* the files the migrations loop reads: `if supabase_dir.exists(): if
\* migrations_dir.exists(): for migration_file in migrations_dir.glob('*.sql')`
migration_files(t) ==
  IF migrations_dir_exists(t) THEN glob_migrations(t) ELSE <<>>

\* the category warning f"{label} compliance score: {score}% (target: 70%+)"
bcv_warning(label, score) ==
  When(score < bcv_threshold, label \o " compliance score: " \o ToString(score) \o "% (target: 70%+)")

\* A method's outcome: the exception that left it ("none" if it returned) and
\* self.results as it leaves them.
Outcome(exception, r) == [raised |-> exception, results |-> r]

\* validate_lgpd_compliance
validate_lgpd_compliance(t, r) ==
  LET lgpd_patterns == [ consent_management |-> <<"consentimento|consent", "lgpd|lei[_\\s]?geral", "data[_\\s]?protection", "pol[ií]tica[_\\s]?de[_\\s]?privacidade">>,
                         data_minimization |-> <<"m[ií]nimo[_\\s]?necess[áa]rio", "data[_\\s]?minimization", "coletar[_\\s]?apenas[_\\s]?necess[áa]rio">>,
                         user_rights |-> <<"direito[_\\s]?de[_\\s]?acesso", "direito[_\\s]?de[_\\s]?retifica[cç][ãa]o", "direito[_\\s]?ao[_\\s]?esquecimento", "data[_\\s]?portability">>,
                         security_measures |-> <<"encry", "criptografia", "access[_\\s]?control", "audit[_\\s]?trail">> ]
      privacy_policy_files == <<"privacy_policy.md", "politica_privacidade.md", "lgpd_compliance.md", "compliance/lgpd.md">>
  IN
  LET r1 == [r EXCEPT !.checks_performed = Append(@, "lgpd")]
      consent_management == code_matches(t, lgpd_patterns.consent_management)
      data_minimization == code_matches(t, lgpd_patterns.data_minimization)
      user_rights == code_matches(t, lgpd_patterns.user_rights)
      privacy_found == \E i \in DOMAIN privacy_policy_files : exists(t, privacy_policy_files[i])
      rls_found == _check_rls_implementation(t)
      \* every migration file adds its own points
      lgpd_score == Sum([i \in DOMAIN migration_files(t) |->
                          migration_files(t)[i].n * lgpd_migration_points(migration_files(t)[i])])
                    + (IF consent_management THEN 20 ELSE 0)
                    + (IF data_minimization THEN 15 ELSE 0)
                    + (IF user_rights THEN 15 ELSE 0)
                    + (IF privacy_found THEN 15 ELSE 0)
                    + (IF rls_found = "True" THEN 10 ELSE 0)
      issues == When(~consent_management, "Missing consent management implementation")
                \o When(~data_minimization, "Missing data minimization implementation")
                \o When(~user_rights, "Missing user rights implementation")
                \o When(rls_found = "False", "Missing RLS for data protection")
  IN
  IF migrations_error(t) # "none" THEN Outcome(migrations_error(t), r1)
  ELSE IF code_files_error(t) # "none" THEN Outcome(code_files_error(t), r1)
  ELSE IF rls_found \notin {"True", "False"}
       THEN Outcome(rls_found,
              [r1 EXCEPT !.brazilian_compliance.lgpd.issues =
                           @ \o When(~consent_management, "Missing consent management implementation")
                             \o When(~data_minimization, "Missing data minimization implementation")
                             \o When(~user_rights, "Missing user rights implementation"),
                         !.recommendations =
                           @ \o When(~privacy_found, "Create LGPD privacy policy documentation")])
  ELSE Outcome("none",
         [r1 EXCEPT !.brazilian_compliance.lgpd.issues = @ \o issues,
                    !.brazilian_compliance.lgpd.score = lgpd_score,
                    !.recommendations = @ \o When(~privacy_found, "Create LGPD privacy policy documentation"),
                    !.warnings = @ \o bcv_warning("LGPD", lgpd_score)])

\* the points one migration file adds to pix_score (lines 238-261)
pix_migration_points(e) ==
  LET content == lower(e.text) IN
  IF str_contains("pix_transactions", content) \/ str_contains("transactions", content)
  THEN (IF str_contains("end_to_end_id", content) THEN 15 ELSE 0)
     + (IF str_contains("transaction_id", content) THEN 10 ELSE 0)
     + (IF str_contains("pix_key", content) THEN 10 ELSE 0)
     + (IF str_contains("amount", content) THEN 5 ELSE 0)
     + (IF str_contains("status", content) \/ str_contains("transaction_status", content) THEN 10 ELSE 0)
  ELSE 0

\* the `for pattern in api_patterns` loop of validate_pix_compliance: "True",
\* "False", or the exception that leaves it
RECURSIVE pix_endpoints_scan(_, _)
pix_endpoints_scan(t, patterns) ==
  IF patterns = <<>> THEN "False"
  ELSE LET found == _search_in_code(t, Head(patterns)) IN
       IF found = "False" THEN pix_endpoints_scan(t, Tail(patterns)) ELSE found

\* validate_pix_compliance
validate_pix_compliance(t, r) ==
  LET pix_patterns == [ transaction_fields |-> <<"end[_\\s]?to[_\\s]?end[_\\s]?id", "transaction[_\\s]?id", "pix[_\\s]?key", "descricao">>,
                        security_measures |-> <<"double[_\\s]?auth|autentica[cç][ãa]o[_\\s]?dupla", "biometric|biometria", "rate[_\\s]?limit", "fraud[_\\s]?detection">>,
                        key_types |-> <<"cpf|cnpj", "email", "phone|telefone", "random[_\\s]?key">>,
                        status_tracking |-> <<"em[_\\s]?processamento|processing", "conclu[ií]do|completed", "falhou|failed", "estornado|refunded">> ]
      api_patterns == <<"/api/v1/pix/", "pix/transfer", "pix/keys", "pix/qrcode">>
  IN
  LET r1 == [r EXCEPT !.checks_performed = Append(@, "pix")]
      pix_implementation == code_matches(t, pix_patterns.transaction_fields)
      pix_security == code_matches(t, pix_patterns.security_measures)
      pix_key_types == code_matches(t, pix_patterns.key_types)
      pix_endpoints == pix_endpoints_scan(t, api_patterns)
      \* every migration file adds its own points
      pix_score == Sum([i \in DOMAIN migration_files(t) |->
                         migration_files(t)[i].n * pix_migration_points(migration_files(t)[i])])
                   + (IF pix_implementation THEN 20 ELSE 0)
                   + (IF pix_security THEN 15 ELSE 0)
                   + (IF pix_key_types THEN 10 ELSE 0)
                   + (IF pix_endpoints = "True" THEN 5 ELSE 0)
      r2 == [r1 EXCEPT !.brazilian_compliance.pix.issues =
                          @ \o When(~pix_implementation, "Missing PIX transaction implementation")
                            \o When(~pix_security, "Missing PIX security measures"),
                       !.recommendations =
                          @ \o When(~pix_key_types,
                                    "Implement PIX key type validation (CPF, CNPJ, email, phone)")]
  IN
  IF migrations_error(t) # "none" THEN Outcome(migrations_error(t), r1)
  ELSE IF code_files_error(t) # "none" THEN Outcome(code_files_error(t), r1)
  ELSE IF pix_endpoints \notin {"True", "False"} THEN Outcome(pix_endpoints, r2)
  ELSE Outcome("none",
         [r2 EXCEPT !.brazilian_compliance.pix.score = pix_score,
                    !.recommendations =
                       @ \o When(pix_endpoints = "False", "Create PIX API endpoints following BCB patterns"),
                    !.warnings = @ \o bcv_warning("PIX", pix_score)])

\* validate_openbanking_compliance
validate_openbanking_compliance(t, r) ==
  LET ob_patterns == [ consent |-> <<"consents?", "scope", "expiration">>,
                       customer |-> <<"customer[_\\s]?data", "personal[_\\s]?data", "identifica[cç][ãa]o">>,
                       accounts |-> <<"accounts?", "balance", "transactions">>,
                       security |-> <<"oauth|oauth2", "token", "scope", "redirect[_\\s]?uri">> ]
      ob_docs == <<"openbanking.md", "open_banking.md", "docs/openbanking/", "openbanking_spec.md">>
  IN
  LET r1 == [r EXCEPT !.checks_performed = Append(@, "openbanking")]
      consent_api == code_matches(t, ob_patterns.consent)
      customer_api == code_matches(t, ob_patterns.customer)
      accounts_api == code_matches(t, ob_patterns.accounts)
      security_implementation == code_matches(t, ob_patterns.security)
      ob_doc_found == \E i \in DOMAIN ob_docs : exists(t, ob_docs[i])
      ob_score == (IF consent_api THEN 25 ELSE 0) + (IF customer_api THEN 20 ELSE 0)
                  + (IF accounts_api THEN 20 ELSE 0) + (IF security_implementation THEN 25 ELSE 0)
                  + (IF ob_doc_found THEN 10 ELSE 0)
  IN
  IF code_files_error(t) # "none" THEN Outcome(code_files_error(t), r1)
  ELSE Outcome("none",
         [r1 EXCEPT !.brazilian_compliance.openbanking.issues =
                       @ \o When(~consent_api, "Missing Open Banking consent API")
                         \o When(~security_implementation, "Missing Open Banking security implementation"),
                    !.brazilian_compliance.openbanking.score = ob_score,
                    !.recommendations =
                       @ \o When(~customer_api, "Implement Open Banking customer data endpoints")
                         \o When(~accounts_api, "Implement Open Banking accounts endpoints")
                         \o When(~ob_doc_found, "Create Open Banking implementation documentation"),
                    !.warnings = @ \o bcv_warning("Open Banking", ob_score)])

\* validate_brazilian_security
validate_brazilian_security(t, r) ==
  LET security_patterns == [ encryption |-> <<"aes[-_]?256", "tls[_\\s]?1\\.3", "encrypt">>,
                             audit |-> <<"audit[_\\s]?trail", "log[_\\s]?access", "audit[_\\s]?log">>,
                             access_control |-> <<"role[_\\s]?based", "multi[_\\s]?factor", "2fa|two[_\\s]?factor">>,
                             data_protection |-> <<"data[_\\s]?masking", "pseudonymiza[cç][ãa]o", "anonymiza[cç][ãa]o">> ]
  IN
  LET r1 == [r EXCEPT !.checks_performed = Append(@, "security")]
      encryption == code_matches(t, security_patterns.encryption)
      audit_trail == code_matches(t, security_patterns.audit)
      access_control == code_matches(t, security_patterns.access_control)
      data_protection == code_matches(t, security_patterns.data_protection)
      security_score == (IF encryption THEN 25 ELSE 0) + (IF audit_trail THEN 25 ELSE 0)
                        + (IF access_control THEN 25 ELSE 0) + (IF data_protection THEN 25 ELSE 0)
  IN
  IF code_files_error(t) # "none" THEN Outcome(code_files_error(t), r1)
  ELSE Outcome("none",
         [r1 EXCEPT !.brazilian_compliance.security.issues =
                       @ \o When(~encryption, "Missing encryption implementation")
                         \o When(~audit_trail, "Missing audit trail implementation")
                         \o When(~access_control, "Missing access control implementation"),
                    !.brazilian_compliance.security.score = security_score,
                    !.recommendations =
                       @ \o When(~data_protection,
                                 "Implement data protection measures (masking, anonymization)"),
                    !.warnings = @ \o bcv_warning("Security", security_score)])

\* C20, a plausible bug: the mean taken over all four categories
bcv_all_scores(r) ==
  [i \in DOMAIN bcv_categories |-> r.brazilian_compliance[bcv_categories[i]].score]

\* the category scores that enter the mean: `if data['score'] > 0`
bcv_counted_scores(r) ==
  LET all == [i \in DOMAIN bcv_categories |-> r.brazilian_compliance[bcv_categories[i]].score]
  IN SelectSeq(all, LAMBDA s : s > 0)

\* C7, a plausible bug: the threshold compared with <= instead of <
bcv_fails_strict(score) == score <= bcv_threshold

\* whether a compliance_score fails the run: `if self.results['compliance_score'] < 70`
bcv_fails(score) == score < bcv_threshold

\* _calculate_overall_score
_calculate_overall_score(r) ==
  LET scores == bcv_counted_scores(r)
      score == IF scores # <<>> THEN Sum(scores) \div Len(scores) ELSE 0
  IN [r EXCEPT !.compliance_score = score,
               !.valid = IF bcv_fails(score) THEN FALSE ELSE @]

\* ---- reports: a report is the sequence of the values it prints, one per line

Line(kind, key, num, text) == [kind |-> kind, key |-> key, num |-> num, text |-> text]

\* one line per string of a list, as `for x in xs: print(f"   • {x}")` prints them
Lines(kind, key, xs) == [i \in DOMAIN xs |-> Line(kind, key, 0, xs[i])]

RECURSIVE Flatten(_)
Flatten(ss) == IF ss = <<>> THEN <<>> ELSE Head(ss) \o Flatten(Tail(ss))

\* ', '.join(xs)
RECURSIVE join(_)
join(xs) ==
  IF xs = <<>> THEN ""
  ELSE IF Len(xs) = 1 THEN xs[1]
  ELSE xs[1] \o ", " \o join(Tail(xs))

\* print_results('text'): a category is printed, with its issues, only when
\* its score is positive
bcv_text_category(r, c) ==
  LET data == r.brazilian_compliance[c] IN
  IF data.score > 0
  THEN <<Line("score", c, data.score, IF data.score >= 70 THEN "ok" ELSE "warn")>>
       \o Lines("issue", c, data.issues)
  ELSE <<>>

bcv_text_report(r) ==
  <<Line("valid", "", 0, IF r.valid THEN "PASSED" ELSE "FAILED"),
    Line("overall", "", r.compliance_score, "")>>
  \o Flatten([i \in DOMAIN bcv_categories |-> bcv_text_category(r, bcv_categories[i])])
  \o Lines("error", "", r.errors)
  \o Lines("warning", "", r.warnings)
  \o Lines("recommendation", "", r.recommendations)
  \o <<Line("checks", "", 0, join(r.checks_performed))>>

\* print_results('json'): json.dumps(self.results) writes every key
bcv_json_category(r, c) ==
  LET data == r.brazilian_compliance[c] IN
  <<Line("score", c, data.score, "")>> \o Lines("issue", c, data.issues)

bcv_json_report(r) ==
  <<Line("valid", "", 0, IF r.valid THEN "true" ELSE "false"),
    Line("overall", "", r.compliance_score, "")>>
  \o Lines("error", "", r.errors)
  \o Lines("warning", "", r.warnings)
  \o Lines("recommendation", "", r.recommendations)
  \o Lines("check", "", r.checks_performed)
  \o Flatten([i \in DOMAIN bcv_categories |-> bcv_json_category(r, bcv_categories[i])])

\* ---- the run operation

\* the values of --check that the model tries; <<>> is the option left out
bcv_check_args == { <<>>, <<"lgpd">>, <<"pix", "openbanking">>, <<"security", "security">> }

\* one branch of the `for check in checks` loop
bcv_check(t, r, check) ==
  IF check = "lgpd" THEN validate_lgpd_compliance(t, r)
  ELSE IF check = "pix" THEN validate_pix_compliance(t, r)
  ELSE IF check = "openbanking" THEN validate_openbanking_compliance(t, r)
  ELSE IF check = "security" THEN validate_brazilian_security(t, r)
  ELSE Outcome("none", r)

\* the `for check in checks` loop and the statement after it, o being what the
\* checks made so far have left: an exception ends validate_all, and the
\* overall score is calculated when the checks are through
RECURSIVE bcv_checks_loop(_, _, _)
bcv_checks_loop(t, o, checks) ==
  IF o.raised # "none" THEN o
  ELSE IF checks = <<>> THEN Outcome("none", _calculate_overall_score(o.results))
  ELSE bcv_checks_loop(t, bcv_check(t, o.results, Head(checks)), Tail(checks))

\* validate_all(checks), called on an object whose results are r
validate_all(t, r, checks) ==
  bcv_checks_loop(t, Outcome("none", r), IF checks = <<>> THEN bcv_categories ELSE checks)

\* main: sys.exit(0 if results['valid'] else 1)
bcv_exit_code(r) == IF r.valid THEN 0 ELSE 1

\* ======================================================================
\* compliance-validator.py
\* ======================================================================

\* the category keys of validation_results, in dictionary order
cv_categories == <<"lgpd_compliance", "bcb_regulations", "data_protection", "financial_security">>

\* BrazilianComplianceValidator.__init__: self.validation_results
cv_new ==
  [ lgpd_compliance |-> [score |-> 0, issues |-> <<>>, recommendations |-> <<>>],
    bcb_regulations |-> [score |-> 0, issues |-> <<>>, recommendations |-> <<>>],
    data_protection |-> [score |-> 0, issues |-> <<>>, recommendations |-> <<>>],
    financial_security |-> [score |-> 0, issues |-> <<>>, recommendations |-> <<>>],
    overall_score |-> 0 ]

\* the suffixes _collect_source_files globs for, in the order it globs them
cv_suffixes == extensions \o <<".json", ".yaml", ".yml", ".md", ".sql">>

\* _collect_source_files: one rglob per suffix, the directories filtered out
_collect_source_files(t) ==
  SelectSeq(Flatten([i \in DOMAIN cv_suffixes |->
                       SelectSeq(t, LAMBDA e : "." \o e.ext = cv_suffixes[i])]),
            is_file)

\* how many files _analyze_files_content reads at most
cv_file_limit == 50

\* source_files[:k], on a list whose entry e stands for e.n files
RECURSIVE slice(_, _)
slice(files, k) ==
  IF files = <<>> \/ k <= 0 THEN <<>>
  ELSE IF Head(files).n <= k THEN <<Head(files)>> \o slice(Tail(files), k - Head(files).n)
  ELSE <<[Head(files) EXCEPT !.n = k]>>

\* _analyze_files_content: the lowered texts that are concatenated, one per
\* file; a file whose read_text raises is skipped by the bare except
_analyze_files_content(source_files) ==
  LET texts == readable(slice(source_files, cv_file_limit))
  IN [i \in DOMAIN texts |-> lower(texts[i].text)]

\* _check_pattern_presence: the patterns hold no line break, so a pattern is
\* in the concatenation exactly when it is in one of the concatenated texts;
\* the patterns are written in lower case, pattern.lower() leaves them as they are
_check_pattern_presence(content, patterns) ==
  \E i \in DOMAIN patterns : \E j \in DOMAIN content : str_contains(patterns[i], lower(content[j]))

\* one `if found: score += weight / else: issues.append, recommendations.append`
Rule(patterns, weight, issue, recommendation) ==
  [patterns |-> patterns, weight |-> weight, issue |-> issue, recommendation |-> recommendation]

\* _validate_lgpd_compliance
cv_lgpd_rules ==
  << Rule(cv_lgpd_patterns.consent_management, 25,
          "Consent management system not found - LGPD Art. 7 requires explicit consent",
          "Implement consent collection, recording, and management system"),
     Rule(cv_lgpd_patterns.data_minimization, 20,
          "Data minimization principles not implemented - LGPD Art. 6",
          "Implement data minimization and purpose limitation"),
     Rule(cv_lgpd_patterns.retention_policies, 25,
          "Data retention policies not defined - LGPD Art. 15",
          "Define and implement data retention and deletion policies"),
     Rule(cv_lgpd_patterns.security_measures, 30,
          "Security measures not properly implemented - LGPD Art. 46",
          "Implement appropriate technical and organizational security measures") >>

\* _validate_bcb_regulations
cv_bcb_rules ==
  << Rule(bcb_patterns.pix_compliance, 35,
          "PIX system not compliant with BCB Circular No 4.015",
          "Implement PIX transaction limits, fraud detection, and logging"),
     Rule(bcb_patterns.open_banking, 30,
          "Open Banking API not compliant with BCB Circular No 4.842",
          "Implement API security, documentation, and data sharing standards"),
     Rule(bcb_patterns.transaction_logging, 35,
          "Financial transaction logging not implemented",
          "Implement 5-year transaction logging and audit trails") >>

\* _validate_data_protection
cv_data_protection_rules ==
  << Rule(cv_security_patterns.encryption, 40,
          "Data encryption not properly implemented",
          "Implement AES-256 encryption and TLS 1.3 for data in transit"),
     Rule(<<"access_control", "controle_acesso", "authorization", "role_based">>, 30,
          "Access control system not implemented",
          "Implement role-based access control with audit logging"),
     Rule(<<"audit", "audit_log", "logging", "registro_auditoria">>, 30,
          "Audit logging system not implemented",
          "Implement comprehensive audit logging for all data access") >>

\* _validate_financial_security
cv_financial_security_rules ==
  << Rule(cv_security_patterns.authentication, 30,
          "Multi-factor authentication not implemented",
          "Implement MFA, biometric authentication, and device trust"),
     Rule(cv_security_patterns.fraud_prevention, 35,
          "Fraud detection system not implemented",
          "Implement real-time fraud detection and behavioral analysis"),
     Rule(<<"security_monitoring", "intrusion_detection", "security_events">>, 35,
          "Security monitoring not implemented",
          "Implement 24/7 security monitoring and incident response") >>

cv_rules(c) ==
  CASE c = "lgpd_compliance" -> cv_lgpd_rules
    [] c = "bcb_regulations" -> cv_bcb_rules
    [] c = "data_protection" -> cv_data_protection_rules
    [] c = "financial_security" -> cv_financial_security_rules

\* C30, a plausible bug: an unsatisfied rule that appends its issue and no
\* recommendation
RECURSIVE cv_apply_issue_only(_, _, _)
cv_apply_issue_only(data, rules, content) ==
  IF rules = <<>> THEN data
  ELSE LET rule == Head(rules)
           next == IF _check_pattern_presence(content, rule.patterns)
                   THEN [data EXCEPT !.score = @ + rule.weight]
                   ELSE [data EXCEPT !.issues = Append(@, rule.issue)]
       IN cv_apply_issue_only(next, Tail(rules), content)

\* The rules of one _validate_* method applied in order to the category's entry
\* of validation_results: the score is added to, the lists are appended to.
RECURSIVE cv_apply(_, _, _)
cv_apply(data, rules, content) ==
  IF rules = <<>> THEN data
  ELSE LET rule == Head(rules)
           next == IF _check_pattern_presence(content, rule.patterns)
                   THEN [data EXCEPT !.score = @ + rule.weight]
                   ELSE [data EXCEPT !.issues = Append(@, rule.issue),
                                     !.recommendations = Append(@, rule.recommendation)]
       IN cv_apply(next, Tail(rules), content)

\* C21, a plausible bug: the mean taken over the categories that scored above 0
cv_calculate_nonzero_score(r) ==
  LET scores == SelectSeq([i \in DOMAIN cv_categories |-> r[cv_categories[i]].score], LAMBDA s : s > 0)
  IN [r EXCEPT !.overall_score = IF scores = <<>> THEN 0 ELSE Sum(scores) \div Len(scores)]

\* _calculate_overall_score
cv_calculate_overall_score(r) ==
  LET scores == [i \in DOMAIN cv_categories |-> r[cv_categories[i]].score]
  IN [r EXCEPT !.overall_score = Sum(scores) \div Len(scores)]

\* validate_project(project_path), the path existing, on an object whose
\* validation_results are r
validate_project(t, r) ==
  LET content == _analyze_files_content(_collect_source_files(t))
      r1 == [r EXCEPT !.lgpd_compliance = cv_apply(@, cv_lgpd_rules, content),
                      !.bcb_regulations = cv_apply(@, cv_bcb_rules, content),
                      !.data_protection = cv_apply(@, cv_data_protection_rules, content),
                      !.financial_security = cv_apply(@, cv_financial_security_rules, content)]
  IN Outcome("none", cv_calculate_overall_score(r1))

\* generate_report
cv_report_category(r, c) ==
  <<Line("score", c, r[c].score, "")>>
  \o Lines("issue", c, r[c].issues)
  \o Lines("recommendation", c, r[c].recommendations)

generate_report(r) ==
  <<Line("overall", "", r.overall_score, "")>>
  \o Flatten([i \in DOMAIN cv_categories |-> cv_report_category(r, cv_categories[i])])

\* C12, a plausible bug: the middle band starts above 60 instead of at 60
cv_exit_code_above(r) ==
  IF r.overall_score >= 80 THEN 0
  ELSE IF r.overall_score > 60 THEN 1
  ELSE 2

\* main: the exit status for an overall score
cv_exit_code(r) ==
  IF r.overall_score >= 80 THEN 0
  ELSE IF r.overall_score >= 60 THEN 1
  ELSE 2

\* ======================================================================
\* performance_audit.py
\* ======================================================================

\* the category keys of results, in the order audit_all runs them
pa_categories ==
  <<"voice_performance", "bundle_optimization", "database_performance",
    "realtime_performance", "mobile_optimization", "core_web_vitals">>

\* PerformanceAuditor.__init__: self.results.  overall_score is kept in tenths
\* of a point (round(x, 1) has one decimal): 258 stands for 25.8.
pa_new ==
  [ overall_score |-> 0, checks_performed |-> <<>>,
    voice_performance |-> [score |-> 0, issues |-> <<>>, recommendations |-> <<>>],
    bundle_optimization |-> [score |-> 0, issues |-> <<>>, recommendations |-> <<>>],
    database_performance |-> [score |-> 0, issues |-> <<>>, recommendations |-> <<>>],
    realtime_performance |-> [score |-> 0, issues |-> <<>>, recommendations |-> <<>>],
    mobile_optimization |-> [score |-> 0, issues |-> <<>>, recommendations |-> <<>>],
    core_web_vitals |-> [score |-> 0, issues |-> <<>>, recommendations |-> <<>>] ]

\* the score every audit starts from
pa_full_score == 100

\* name.replace('_', ' ') on the keys of the two dictionaries it is applied to
replace_underscore ==
  ("preload_models" :> "preload models") @@ ("web_workers" :> "web workers")
  @@ ("caching" :> "caching") @@ ("batching" :> "batching")
  @@ ("code_splitting" :> "code splitting") @@ ("tree_shaking" :> "tree shaking")
  @@ ("minification" :> "minification") @@ ("asset_optimization" :> "asset optimization")

\* the files _search_in_files opens: one rglob per extension, in order
pa_search_files(t, exts) == Flatten([i \in DOMAIN exts |-> rglob(t, exts[i])])

\* _search_in_files(pattern, extensions), as its callers use it: "True" when
\* the list of matches is not empty, "False" when it is empty, or the exception
\* that leaves it.  Every file is opened, whether or not one has matched.
_search_in_files(t, pattern, exts) ==
  LET files == pa_search_files(t, exts)
      err == first_uncaught(files, DecodeOrPermission)
  IN IF err # "none" THEN err
     ELSE IF \E i \in DOMAIN files : read_outcome(files[i]) = "ok" /\ re_search_ignorecase(pattern, files[i].text)
          THEN "True"
     ELSE "False"

\* any(self._search_in_files(pattern, exts) for pattern in patterns)
RECURSIVE any_search_in_files(_, _, _)
any_search_in_files(t, patterns, exts) ==
  IF patterns = <<>> THEN "False"
  ELSE LET found == _search_in_files(t, Head(patterns), exts) IN
       IF found = "False" THEN any_search_in_files(t, Tail(patterns), exts) ELSE found

\* One step of an audit: the exception that leaves it ("none" if none does),
\* whether it deducts, and what it deducts and appends when it does.
Step(exception, deducts, weight, issues, recommendations) ==
  [raised |-> exception, deducts |-> deducts, weight |-> weight,
   issues |-> issues, recommendations |-> recommendations]

\* C9, a plausible bug: a check that only recommends takes nothing off
IfMissingRequired(found, weight, issues, recommendations) ==
  Step(IF found \in {"True", "False"} THEN "none" ELSE found,
       found = "False" /\ issues # <<>>, weight, issues, recommendations)

\* `if not <search>: score -= weight ...`
IfMissing(found, weight, issues, recommendations) ==
  Step(IF found \in {"True", "False"} THEN "none" ELSE found, found = "False",
       weight, issues, recommendations)

\* `if <search>: score -= weight ...`
IfFound(found, weight, issues, recommendations) ==
  Step(IF found \in {"True", "False"} THEN "none" ELSE found, found = "True",
       weight, issues, recommendations)

\* the exception that leaves a sequence of steps, "none" if they all complete
RECURSIVE steps_raised(_)
steps_raised(steps) ==
  IF steps = <<>> THEN "none"
  ELSE IF Head(steps).raised # "none" THEN Head(steps).raised
  ELSE steps_raised(Tail(steps))

\* C19, a plausible bug: the score stored without max(0, ...)
audit_unfloored(r, c, steps) ==
  LET r1 == [r EXCEPT !.checks_performed = Append(@, c)]
      taken == SelectSeq(steps, LAMBDA s : s.deducts)
      score == pa_full_score - Sum([i \in DOMAIN taken |-> taken[i].weight])
  IN IF steps_raised(steps) # "none" THEN Outcome(steps_raised(steps), r1)
     ELSE Outcome("none",
            [r1 EXCEPT ![c] = [score |-> score,
                               issues |-> Flatten([i \in DOMAIN taken |-> taken[i].issues]),
                               recommendations |-> Flatten([i \in DOMAIN taken |-> taken[i].recommendations])]])

\* An audit method: checks_performed is appended to first; the steps run in
\* order; the category's score, issues and recommendations are assigned when
\* all steps have completed, the score floored at 0.
audit(r, c, steps) ==
  LET r1 == [r EXCEPT !.checks_performed = Append(@, c)]
      taken == SelectSeq(steps, LAMBDA s : s.deducts)
      score == pa_full_score - Sum([i \in DOMAIN taken |-> taken[i].weight])
  IN IF steps_raised(steps) # "none" THEN Outcome(steps_raised(steps), r1)
     ELSE Outcome("none",
            [r1 EXCEPT ![c] = [score |-> Max(0, score),
                               issues |-> Flatten([i \in DOMAIN taken |-> taken[i].issues]),
                               recommendations |-> Flatten([i \in DOMAIN taken |-> taken[i].recommendations])]])

\* audit_voice_performance
voice_optimization_step(t, optimization_patterns, name) ==
  IfMissing(_search_in_files(t, optimization_patterns[name], <<"ts", "tsx", "js">>), 15,
            <<"Missing " \o replace_underscore[name] \o " for voice processing">>,
            <<"Implement " \o replace_underscore[name] \o " to improve voice response times">>)

audit_voice_performance(t, r) ==
  LET optimization_patterns == [ preload_models |-> "preload|precache",
                                 web_workers |-> "web[\\s_-]?worker|worker[\\s_-]?thread",
                                 caching |-> "cache.*voice|voice.*cache",
                                 batching |-> "batch.*voice|voice.*batch" ]
      optimization_patterns_keys == <<"preload_models", "web_workers", "caching", "batching">>
      async_patterns == <<"async.*voice|voice.*async", "await.*voice|voice.*await", "promise.*voice|voice.*promise">>
  IN
  audit(r, "voice_performance",
    [i \in DOMAIN optimization_patterns_keys |-> voice_optimization_step(t, optimization_patterns, optimization_patterns_keys[i])]
    \o << IfMissing(any_search_in_files(t, async_patterns, <<"ts", "tsx">>), 20,
                    <<"Voice processing not properly asynchronous">>,
                    <<"Ensure voice processing is non-blocking with async/await">>),
          IfMissing(_search_in_files(t, "500ms|<.*500.*ms|voice.*response.*time", <<"ts", "tsx", "md">>), 10,
                    <<>>,
                    <<"Document voice response time targets (<500ms)">>) >>)

\* the entry of the tree at a path
entry_at(t, p) == CHOOSE e \in {t[i] : i \in DOMAIN t} : e.path = p

\* audit_bundle_optimization
bundle_feature_step(optimization_features, config_content, feature) ==
  Step("none", ~re_search_ignorecase(optimization_features[feature], config_content), 20,
       <<"Missing " \o replace_underscore[feature] \o " in build configuration">>,
       <<"Enable " \o replace_underscore[feature] \o " for smaller bundles">>)

vite_steps(t) ==
  LET optimization_features == [ code_splitting |-> "codeSplitting|splitVendorChunkPlugin",
                                 tree_shaking |-> "treeShaking|treeshake",
                                 minification |-> "minify|terser",
                                 asset_optimization |-> "asset|assetInlineLimit" ]
      optimization_features_keys == <<"code_splitting", "tree_shaking", "minification", "asset_optimization">>
  IN
  IF exists(t, "vite.config.ts")
  THEN LET vite_config == entry_at(t, "vite.config.ts") IN
       IF read_outcome(vite_config) # "ok"
       THEN <<Step(read_outcome(vite_config), FALSE, 0, <<>>, <<>>)>>
       ELSE [i \in DOMAIN optimization_features_keys |->
               bundle_feature_step(optimization_features, vite_config.text, optimization_features_keys[i])]
  ELSE <<Step("none", TRUE, 50,
              <<"No Vite configuration found">>,
              <<"Set up Vite configuration with optimization features">>)>>

audit_bundle_optimization(t, r) ==
  LET lazy_patterns == <<"lazy\\s*\\(", "dynamic\\s*\\(\\s*import", "Suspense", "react\\.lazy">>
  IN
  audit(r, "bundle_optimization",
    vite_steps(t)
    \o << IfMissing(any_search_in_files(t, lazy_patterns, <<"ts", "tsx">>), 25,
                    <<"No code splitting with lazy loading found">>,
                    <<"Implement lazy loading for better initial load times">>),
          IfMissing(_search_in_files(t, "bundle[\\s_-]?size|webpack[\\s_-]?bundle|analyze", <<"json", "js">>), 15,
                    <<>>,
                    <<"Set up bundle size analysis and monitoring">>) >>)

\* the migrations loop of audit_database_performance: every file is read
\* unguarded, and the loop breaks at the first one that creates an index
RECURSIVE index_scan(_)
index_scan(files) ==
  IF files = <<>> THEN "False"
  ELSE LET e == Head(files) IN
       IF read_outcome(e) # "ok" THEN read_outcome(e)
       ELSE IF str_contains("CREATE INDEX", e.text) \/ str_contains("CREATE UNIQUE INDEX", e.text)
            THEN "True"
       ELSE index_scan(Tail(files))

index_steps(t) ==
  IF exists(t, "supabase") /\ exists(t, "supabase/migrations")
  THEN <<IfMissing(index_scan(glob_migrations(t)), 30,
                   <<"No database indexes found in migrations">>,
                   <<"Add indexes for frequently queried columns">>)>>
  ELSE <<>>

query_step(t, pattern) ==
  IfFound(_search_in_files(t, pattern, <<"ts", "tsx", "js">>), 20,
          <<"Potential inefficient query pattern: " \o pattern>>,
          <<"Optimize database queries for better performance">>)

\* audit_database_performance
audit_database_performance(t, r) ==
  LET query_patterns == <<"\\.select\\(\\s*[\"\\']\\*[\"\\']", "fetch.*all", "N\\+1.*query">>
      cache_patterns == <<"useQuery.*staleTime", "queryClient.*setQueryData", "supabase.*cache", "react.*query.*cache">>
  IN
  audit(r, "database_performance",
    index_steps(t)
    \o [i \in DOMAIN query_patterns |-> query_step(t, query_patterns[i])]
    \o << IfMissing(any_search_in_files(t, cache_patterns, <<"ts", "tsx">>), 25,
                    <<>>,
                    <<"Implement query result caching for better performance">>) >>)

\* audit_realtime_performance
audit_realtime_performance(t, r) ==
  LET realtime_patterns == <<"supabase.*channel", "on\\([\\'\"]postgres_changes[\\'\"]", "realtime.*subscribe", "subscribeToTable">>
      optimistic_patterns == <<"useMutation.*onSuccess", "optimistic.*update", "queryClient.*invalidateQueries">>
  IN
  LET realtime_found == any_search_in_files(t, realtime_patterns, <<"ts", "tsx">>)
      sub_optimization ==
        _search_in_files(t, "channel.*unsubscribe|cleanup.*subscription", <<"ts", "tsx">>)
  IN audit(r, "realtime_performance",
       << IfMissing(realtime_found, 40,
                    <<>>,
                    <<"Implement real-time synchronization for instant updates">>),
          Step(IF sub_optimization \in {"True", "False"} THEN "none" ELSE sub_optimization,
               realtime_found = "True" /\ sub_optimization = "False", 20,
               <<"Missing subscription cleanup">>,
               <<"Ensure real-time subscriptions are properly cleaned up">>),
          IfMissing(any_search_in_files(t, optimistic_patterns, <<"ts", "tsx">>), 25,
                    <<>>,
                    <<"Implement optimistic updates for better UX">>) >>)

\* audit_mobile_optimization
audit_mobile_optimization(t, r) ==
  LET responsive_patterns == <<"responsive|mobile|tablet", "breakpoint|screen.*size", "tailwind.*sm:|md:|lg:|xl:", "media.*query">>
      touch_patterns == <<"onClick|onTouch", "button.*size", "touch.*target", "mobile.*optimized">>
      mobile_optimizations == <<"mobile.*viewport|viewport.*scale", "touch.*action|user.*select", "mobile.*performance|device.*memory">>
  IN
  audit(r, "mobile_optimization",
    << IfMissing(any_search_in_files(t, responsive_patterns, <<"ts", "tsx", "css">>), 30,
                 <<>>,
                 <<"Implement responsive design for mobile devices">>),
       IfMissing(any_search_in_files(t, touch_patterns, <<"ts", "tsx">>), 25,
                 <<>>,
                 <<"Ensure buttons and interactive elements are touch-friendly">>),
       IfMissing(any_search_in_files(t, mobile_optimizations, <<"tsx", "html", "css">>), 20,
                 <<>>,
                 <<"Add mobile-specific viewport and performance optimizations">>) >>)

\* audit_core_web_vitals
audit_core_web_vitals(t, r) ==
  LET monitoring_patterns == <<"web[-_]?vitals", "performance.*observer", "LCP|INP|CLS", "performance.*mark|performance.*measure">>
      image_patterns == <<"next[/\\\\]image|next/image", "lazy.*load.*image|image.*lazy", "srcset|sizes", "webp|avif|optimization">>
      font_patterns == <<"font.*display.*swap", "preload.*font", "font.*optimization", "webfont.*loader">>
      layout_patterns == <<"CLS|cumulative.*layout.*shift", "layout.*shift|layout.*stability", "animation.*hardware|gpu">>
  IN
  audit(r, "core_web_vitals",
    << IfMissing(any_search_in_files(t, monitoring_patterns, <<"ts", "tsx", "js">>), 30,
                 <<>>,
                 <<"Set up Core Web Vitals monitoring">>),
       IfMissing(any_search_in_files(t, image_patterns, <<"ts", "tsx", "jsx">>), 25,
                 <<>>,
                 <<"Optimize images for better LCP">>),
       IfMissing(any_search_in_files(t, font_patterns, <<"tsx", "html", "css">>), 20,
                 <<>>,
                 <<"Optimize font loading for better performance">>),
       IfMissing(any_search_in_files(t, layout_patterns, <<"ts", "tsx", "css">>), 25,
                 <<>>,
                 <<"Ensure layout stability to prevent CLS">>) >>)

\* round(total / count, 1) in tenths: total * 10 / count rounded to the nearest
\* integer (count is 6 and total a multiple of 5, no quotient lies half-way)
round_tenths(total, count) == (2 * 10 * total + count) \div (2 * count)

\* calculate_overall_score
calculate_overall_score(r) ==
  LET scores == [i \in DOMAIN pa_categories |-> r[pa_categories[i]].score]
  IN [r EXCEPT !.overall_score = round_tenths(Sum(scores), Len(scores))]

\* one audit of audit_all
pa_audit(t, r, c) ==
  CASE c = "voice_performance" -> audit_voice_performance(t, r)
    [] c = "bundle_optimization" -> audit_bundle_optimization(t, r)
    [] c = "database_performance" -> audit_database_performance(t, r)
    [] c = "realtime_performance" -> audit_realtime_performance(t, r)
    [] c = "mobile_optimization" -> audit_mobile_optimization(t, r)
    [] c = "core_web_vitals" -> audit_core_web_vitals(t, r)

\* the audits of audit_all in turn and the statement after them, o being what
\* the audits made so far have left: an exception ends audit_all, and the
\* overall score is calculated when the audits are through
RECURSIVE pa_audits(_, _, _)
pa_audits(t, o, cs) ==
  IF o.raised # "none" THEN o
  ELSE IF cs = <<>> THEN Outcome("none", calculate_overall_score(o.results))
  ELSE pa_audits(t, pa_audit(t, o.results, Head(cs)), Tail(cs))

\* audit_all(), called on an object whose results are r
audit_all(t, r) == pa_audits(t, Outcome("none", r), pa_categories)

\* the pass threshold of main, in tenths like overall_score
pa_threshold == 70 * 10

\* whether main exits 0: `results['overall_score'] >= 70`
pa_passes(score) == score >= pa_threshold

\* main: sys.exit(0 if results['overall_score'] >= 70 else 1)
pa_exit_code(r) == IF pa_passes(r.overall_score) THEN 0 ELSE 1

\* C25, a plausible bug: a score of exactly 70 labelled as one below 70
pa_status_above(score) ==
  IF score >= 90 * 10 THEN "EXCELLENT"
  ELSE IF score >= 80 * 10 THEN "GOOD"
  ELSE IF score > 70 * 10 THEN "FAIR"
  ELSE "NEEDS IMPROVEMENT"

\* print_results('text'): the band printed beside the overall score
pa_status(score) ==
  IF score >= 90 * 10 THEN "EXCELLENT"
  ELSE IF score >= 80 * 10 THEN "GOOD"
  ELSE IF score >= 70 * 10 THEN "FAIR"
  ELSE "NEEDS IMPROVEMENT"

\* print_results('text'): the mark printed beside a category score
pa_mark(score) == IF score >= 90 THEN "ok" ELSE IF score >= 70 THEN "warn" ELSE "fail"

pa_text_category(r, c) ==
  <<Line("score", c, r[c].score, pa_mark(r[c].score))>>
  \o Lines("issue", c, r[c].issues)
  \o Lines("recommendation", c, r[c].recommendations)

pa_text_report(r) ==
  <<Line("overall", "", r.overall_score, pa_status(r.overall_score))>>
  \o Flatten([i \in DOMAIN pa_categories |-> pa_text_category(r, pa_categories[i])])
  \o <<Line("checks", "", 0, join(r.checks_performed))>>

\* print_results('json')
pa_json_category(r, c) ==
  <<Line("score", c, r[c].score, "")>>
  \o Lines("issue", c, r[c].issues)
  \o Lines("recommendation", c, r[c].recommendations)

pa_json_report(r) ==
  <<Line("overall", "", r.overall_score, "")>>
  \o Lines("check", "", r.checks_performed)
  \o Flatten([i \in DOMAIN pa_categories |-> pa_json_category(r, pa_categories[i])])

\* ======================================================================
\* voice_performance_analyzer.py
\* ======================================================================

\* A Python dictionary of flags: its items in insertion order.
Item(key, value) == [key |-> key, value |-> value]

dict_has(d, key) == \E i \in DOMAIN d : d[i].key = key

dict_get(d, key) == d[CHOOSE i \in DOMAIN d : d[i].key = key].value

\* d[key] = value: an existing key keeps its place, a new key goes last
dict_set(d, key, value) ==
  IF dict_has(d, key)
  THEN [i \in DOMAIN d |-> IF d[i].key = key THEN Item(key, value) ELSE d[i]]
  ELSE Append(d, Item(key, value))

\* sum(d.values()) on a dictionary of booleans
sum_values(d) == Cardinality({i \in DOMAIN d : d[i].value})

\* VoicePerformanceAnalyzer.__init__: self.results.  performance_score is kept
\* in halves of a point (the score is a sum of multiples of 7.5): 85 stands
\* for 42.5.
vpa_new(target_ms) ==
  [ performance_score |-> 0, target_ms |-> target_ms, voice_response_time |-> 0,
    issues |-> <<>>, recommendations |-> <<>>, optimizations_found |-> <<>>,
    performance_patterns |->
      << Item("voice_activity_detection", FALSE), Item("processing_optimization", FALSE),
         Item("caching_strategy", FALSE), Item("memory_management", FALSE),
         Item("regional_adaptation", FALSE) >>,
    brazilian_patterns |->
      << Item("portuguese_support", FALSE), Item("regional_variations", FALSE),
         Item("financial_terminology", FALSE), Item("slang_recognition", FALSE) >> ]

\* the values of --target-ms that the model tries; 200 is the default
vpa_target_args == { <<200>>, <<150>>, <<350>> }

\* any(keyword in str(file_path).lower() for keyword in ['voice', 'speech', 'stt', 'tts'])
is_voice_file(e) ==
  \E keyword \in {"voice", "speech", "stt", "tts"} : <<keyword, e.path>> \in path_keyword_hits

\* voice_files of analyze_voice_components
voice_files(t) == SelectSeq(rglob(t, "ts"), is_voice_file) \o SelectSeq(rglob(t, "tsx"), is_voice_file)

\* The `for pattern in patterns: for file_path in voice_files: ... break` loops:
\* every pattern is searched, each search stopping at the first file that
\* matches.  "True" if some pattern was found, "False" if none, or the
\* exception that leaves the loops.
RECURSIVE found_patterns(_, _)
found_patterns(patterns, files) ==
  IF patterns = <<>> THEN "False"
  ELSE LET here == search_scan(Head(patterns), files)
           rest == found_patterns(Tail(patterns), files)
       IN IF here \notin {"True", "False"} THEN here
          ELSE IF rest \notin {"True", "False"} THEN rest
          ELSE IF here = "True" THEN "True" ELSE rest

\* the `for category, patterns in voice_patterns.items()` loop
RECURSIVE voice_categories_loop(_, _, _, _)
voice_categories_loop(files, r, voice_patterns, categories) ==
  IF categories = <<>> THEN Outcome("none", r)
  ELSE LET category == Head(categories)
           found == found_patterns(voice_patterns[category], files)
       IN IF found \notin {"True", "False"} THEN Outcome(found, r)
          ELSE voice_categories_loop(files,
                 IF found = "True"
                 THEN [r EXCEPT !.performance_patterns = dict_set(@, category, TRUE)]
                 ELSE [r EXCEPT !.issues = Append(@, "Missing " \o category \o " implementation")],
                 voice_patterns, Tail(categories))

\* analyze_voice_components
analyze_voice_components(t, r) ==
  LET voice_patterns == [ speech_recognition |-> <<"webkitSpeechRecognition", "SpeechRecognition", "start\\(\\)", "stop\\(\\)", "onresult", "onerror">>,
                          voice_activity_detection |-> <<"VAD|voice.*activity.*detection", "detectSpeech", "speech.*end", "silence.*duration", "audio.*level">>,
                          speech_synthesis |-> <<"speechSynthesis", "speechSynthesisUtterance", "speak\\(\\)", "voice.*synthesis">>,
                          voice_state |-> <<"isListening", "transcript", "voiceState", "voiceRecognition">> ]
      voice_patterns_keys == <<"speech_recognition", "voice_activity_detection", "speech_synthesis", "voice_state">>
      performance_configs == <<"auto.*stop.*timeout", "processing.*delay", "min.*audio.*duration", "max.*audio.*duration", "silence.*timeout">>
  IN
  LET o == voice_categories_loop(voice_files(t), r, voice_patterns, voice_patterns_keys)
      found_configs == found_patterns(performance_configs, voice_files(t))
  IN IF o.raised # "none" THEN o
     ELSE IF found_configs \notin {"True", "False"} THEN Outcome(found_configs, o.results)
     ELSE Outcome("none",
            IF found_configs = "True"
            THEN [o.results EXCEPT !.performance_patterns = dict_set(@, "processing_optimization", TRUE)]
            ELSE [o.results EXCEPT !.recommendations =
                                      Append(@, "Add voice performance timeout configurations")])

\* C23, a plausible bug: a pattern counted once per file that holds it, as a
\* search that stops at the first match would count it
found_count_once(patterns, files) ==
  LET rd == readable(files) IN
  Sum([i \in DOMAIN patterns |->
         Sum([j \in DOMAIN rd |-> rd[j].n * Min(re_findall_count(patterns[i], rd[j].text), 1)])])

\* found_count of the counting loops: every pattern's matches in every file
\* that can be read
found_count(patterns, files) ==
  LET rd == readable(files) IN
  Sum([i \in DOMAIN patterns |->
         Sum([j \in DOMAIN rd |-> rd[j].n * re_findall_count(patterns[i], rd[j].text)])])

Counted(r, score) == [results |-> r, score |-> score]

\* the body of the category loop of analyze_performance_patterns
perf_each(r, score, category, count) ==
  IF count > 0
  THEN Counted([r EXCEPT !.optimizations_found =
                  Append(@, category \o ": " \o ToString(count) \o " instances")], score)
  ELSE Counted([r EXCEPT !.recommendations =
                  Append(@, "Consider adding " \o category \o " optimizations")], score)

\* the body of the category loop of analyze_brazilian_patterns
brazilian_each(r, score, category, count) ==
  IF count > 0
  THEN Counted([r EXCEPT !.brazilian_patterns = dict_set(@, category, TRUE)], score)
  ELSE Counted([r EXCEPT !.recommendations =
                  Append(@, "Consider adding " \o category \o " support for Brazilian users")], score)

\* the body of the category loop of analyze_memory_management
memory_each(r, score, category, count) ==
  IF count > 0
  THEN Counted(r, score + Min(count * 2, 10))
  ELSE Counted([r EXCEPT !.recommendations =
                  Append(@, "Add " \o category \o " to prevent memory leaks")], score)

\* the body of the category loop of analyze_caching_strategies
cache_each(r, score, category, count) ==
  IF count > 0
  THEN Counted(r, score + Min(count, 5))
  ELSE IF category = "voice_caching"
  THEN Counted([r EXCEPT !.recommendations =
                  Append(@, "Implement voice command caching for performance")], score)
  ELSE Counted(r, score)

\* The category loop of a counting analysis: each category of the table is
\* counted over all code files and handed to the body of the analysis, which
\* updates the results and the running score.
each(analysis, r, score, category, count) ==
  CASE analysis = "performance_patterns" -> perf_each(r, score, category, count)
    [] analysis = "brazilian_patterns" -> brazilian_each(r, score, category, count)
    [] analysis = "memory_management" -> memory_each(r, score, category, count)
    [] analysis = "caching_strategies" -> cache_each(r, score, category, count)

RECURSIVE count_loop(_, _, _, _, _, _)
count_loop(files, table, categories, r, score, analysis) ==
  IF categories = <<>> THEN Counted(r, score)
  ELSE LET s == each(analysis, r, score, Head(categories), found_count(table[Head(categories)], files))
       IN count_loop(files, table, Tail(categories), s.results, s.score, analysis)

\* Each counting analysis opens every code file for its first pattern: a file
\* that cannot be opened for another reason than decoding or permission ends
\* the method before it has changed anything.

\* analyze_performance_patterns
analyze_performance_patterns(t, r) ==
  LET perf_patterns == [ react_optimizations |-> <<"useMemo", "useCallback", "React\\.lazy", "Suspense", "memo">>,
                         async_operations |-> <<"await", "Promise", "async", "timeout", "setTimeout">>,
                         error_handling |-> <<"try.*catch", "error.*boundary", "onError", "fallback">>,
                         performance_monitoring |-> <<"performance\\.now\\(\\)", "console\\.time", "benchmark", "metrics">> ]
      perf_patterns_keys == <<"react_optimizations", "async_operations", "error_handling", "performance_monitoring">>
  IN
  IF code_files_error(t) # "none" THEN Outcome(code_files_error(t), r)
  ELSE Outcome("none", count_loop(code_files(t), perf_patterns, perf_patterns_keys, r, 0, "performance_patterns").results)

\* analyze_brazilian_patterns
analyze_brazilian_patterns(t, r) ==
  LET brazilian_patterns == [ portuguese_support |-> <<"pt[-_]?BR", "portugu[eê]s", "brazilian", "portugal", "locale.*[\\'\"]pt">>,
                              regional_variations |-> <<"s[aã]o.*paulo|sp", "rio.*de.*janeiro|rj", "nordeste|ne", "sul", "norte", "centro[-_]?oeste|co">>,
                              financial_terminology |-> <<"pix|PIX", "boleto|Boleto", "grana", "pilas", "conta", "transfer[eê]ncia">>,
                              slang_recognition |-> <<"eai|eae", "beleza", "oxente", "bah|tch[eê]", "mano|parça|guri", "caraca|sinistro">> ]
      brazilian_patterns_keys == <<"portuguese_support", "regional_variations", "financial_terminology", "slang_recognition">>
  IN
  IF code_files_error(t) # "none" THEN Outcome(code_files_error(t), r)
  ELSE Outcome("none",
         count_loop(code_files(t), brazilian_patterns, brazilian_patterns_keys, r, 0, "brazilian_patterns").results)

\* analyze_memory_management
analyze_memory_management(t, r) ==
  LET memory_patterns == [ cleanup_patterns |-> <<"clearInterval", "clearTimeout", "abortController", "cleanup", "dispose", "unsubscribe">>,
                           leak_prevention |-> <<"useEffect.*\\[\\].*return.*cleanup", "componentWillUnmount", "removeEventListener", "cancelAnimationFrame">>,
                           resource_management |-> <<"RefObject", "useRef", "WeakMap", "WeakSet", "finalize">> ]
      memory_patterns_keys == <<"cleanup_patterns", "leak_prevention", "resource_management">>
  IN
  IF code_files_error(t) # "none" THEN Outcome(code_files_error(t), r)
  ELSE LET s == count_loop(code_files(t), memory_patterns, memory_patterns_keys, r, 0, "memory_management")
       IN Outcome("none",
            IF s.score >= 20
            THEN [s.results EXCEPT !.performance_patterns = dict_set(@, "memory_management", TRUE)]
            ELSE [s.results EXCEPT !.issues = Append(@, "Insufficient memory management patterns")])

\* analyze_caching_strategies
analyze_caching_strategies(t, r) ==
  LET cache_patterns == [ react_query |-> <<"useQuery", "useMutation", "queryClient", "staleTime", "cacheTime">>,
                          voice_caching |-> <<"cache.*voice", "voice.*cache", "command.*cache", "recognition.*cache">>,
                          general_caching |-> <<"cache\\(|Map\\(|localStorage", "sessionStorage", "TTL|ttl", "expire">> ]
      cache_patterns_keys == <<"react_query", "voice_caching", "general_caching">>
  IN
  IF code_files_error(t) # "none" THEN Outcome(code_files_error(t), r)
  ELSE LET s == count_loop(code_files(t), cache_patterns, cache_patterns_keys, r, 0, "caching_strategies")
       IN Outcome("none",
            IF s.score >= 5
            THEN [s.results EXCEPT !.performance_patterns = dict_set(@, "caching_strategy", TRUE)]
            ELSE [s.results EXCEPT !.recommendations =
                                      Append(@, "Implement caching strategies for voice commands")])

\* C14, a plausible bug: a score of exactly 70 left to the band below
response_time_above(score) ==
  IF score >= 2 * 90 THEN 150
  ELSE IF score >= 2 * 80 THEN 180
  ELSE IF score > 2 * 70 THEN 220
  ELSE IF score >= 2 * 60 THEN 280
  ELSE 350

\* the estimate of the response time for a performance score (in halves)
response_time(score) ==
  IF score >= 2 * 90 THEN 150
  ELSE IF score >= 2 * 80 THEN 180
  ELSE IF score >= 2 * 70 THEN 220
  ELSE IF score >= 2 * 60 THEN 280
  ELSE 350

\* C28, a plausible bug: the bonus added whatever issues the analyses recorded
calculate_performance_score_bonus(r) ==
  LET perf_patterns_score == 2 * (sum_values(r.performance_patterns) * 8)
      brazilian_patterns_score == sum_values(r.brazilian_patterns) * 15
      opt_score == IF r.optimizations_found # <<>>
                   THEN 2 * Min(Len(r.optimizations_found) * 4, 20) ELSE 0
      score == Min(perf_patterns_score, 2 * 40) + Min(brazilian_patterns_score, 2 * 30)
               + opt_score + 2 * 10
      performance_score == Min(score, 2 * 100)
      voice_response_time == response_time(performance_score)
  IN [r EXCEPT !.performance_score = performance_score,
               !.voice_response_time = voice_response_time,
               !.issues = @ \o When(voice_response_time > r.target_ms,
                                    "Voice response time exceeds target by "
                                    \o ToString(voice_response_time - r.target_ms) \o "ms")]

\* calculate_performance_score; all amounts in halves of a point
calculate_performance_score(r) ==
  LET perf_patterns_score == 2 * (sum_values(r.performance_patterns) * 8)
      brazilian_patterns_score == sum_values(r.brazilian_patterns) * 15
      opt_score == IF r.optimizations_found # <<>>
                   THEN 2 * Min(Len(r.optimizations_found) * 4, 20) ELSE 0
      bonus == IF r.issues = <<>> THEN 2 * 10 ELSE 0
      score == Min(perf_patterns_score, 2 * 40) + Min(brazilian_patterns_score, 2 * 30)
               + opt_score + bonus
      performance_score == Min(score, 2 * 100)
      voice_response_time == response_time(performance_score)
  IN [r EXCEPT !.performance_score = performance_score,
               !.voice_response_time = voice_response_time,
               !.issues = @ \o When(voice_response_time > r.target_ms,
                                    "Voice response time exceeds target by "
                                    \o ToString(voice_response_time - r.target_ms) \o "ms")]

\* one analysis of analyze_all
vpa_analysis(t, r, name) ==
  CASE name = "voice_components" -> analyze_voice_components(t, r)
    [] name = "performance_patterns" -> analyze_performance_patterns(t, r)
    [] name = "brazilian_patterns" -> analyze_brazilian_patterns(t, r)
    [] name = "memory_management" -> analyze_memory_management(t, r)
    [] name = "caching_strategies" -> analyze_caching_strategies(t, r)

\* the analyses of analyze_all, in the order it runs them
vpa_analyses ==
  <<"voice_components", "performance_patterns", "brazilian_patterns",
    "memory_management", "caching_strategies">>

\* the analyses of analyze_all in turn and the statement after them, o being
\* what the analyses made so far have left: an exception ends analyze_all, and
\* the performance score is calculated when the analyses are through
RECURSIVE vpa_analyses_loop(_, _, _)
vpa_analyses_loop(t, o, names) ==
  IF o.raised # "none" THEN o
  ELSE IF names = <<>> THEN Outcome("none", calculate_performance_score(o.results))
  ELSE vpa_analyses_loop(t, vpa_analysis(t, o.results, Head(names)), Tail(names))

\* analyze_all(), called on an object whose results are r
analyze_all(t, r) == vpa_analyses_loop(t, Outcome("none", r), vpa_analyses)

\* generate_optimization_recommendations
generate_optimization_recommendations(r) ==
  When(r.voice_response_time > r.target_ms,
       "Reduce voice response time by " \o ToString(r.voice_response_time - r.target_ms)
       \o "ms to meet target")
  \o When(~dict_get(r.performance_patterns, "voice_activity_detection"),
          "Implement Voice Activity Detection (VAD) for faster speech processing")
  \o When(~dict_get(r.performance_patterns, "caching_strategy"),
          "Add caching for frequently used voice commands")
  \o When(~dict_get(r.performance_patterns, "memory_management"),
          "Fix memory leaks in voice components to prevent performance degradation")
  \o When(~dict_get(r.brazilian_patterns, "regional_variations"),
          "Add regional Brazilian Portuguese variations for better recognition accuracy")
  \o When(~dict_get(r.brazilian_patterns, "slang_recognition"),
          "Implement Brazilian slang recognition for improved user experience")

\* the first two statements of print_results: the additional recommendations
\* are appended to the results before anything is printed
vpa_print_results(r) ==
  [r EXCEPT !.recommendations = @ \o generate_optimization_recommendations(r)]

vpa_flag_lines(kind, d, yes, no) ==
  [i \in DOMAIN d |-> Line(kind, d[i].key, 0, IF d[i].value THEN yes ELSE no)]

\* print_results('text'), on the results after the recommendations were added
vpa_text_report(r) ==
  <<Line("overall", "", r.performance_score, ""),
    Line("target", "", r.target_ms, ""),
    Line("response_time", "", r.voice_response_time,
         IF r.voice_response_time <= r.target_ms THEN "TARGET MET" ELSE "TARGET MISSED")>>
  \o vpa_flag_lines("performance_pattern", r.performance_patterns, "found", "missing")
  \o vpa_flag_lines("brazilian_pattern", r.brazilian_patterns, "found", "missing")
  \o Lines("optimization", "", r.optimizations_found)
  \o Lines("issue", "", r.issues)
  \o Lines("recommendation", "", r.recommendations)

\* print_results('json')
vpa_json_report(r) ==
  <<Line("overall", "", r.performance_score, ""),
    Line("target", "", r.target_ms, ""),
    Line("response_time", "", r.voice_response_time, "")>>
  \o Lines("issue", "", r.issues)
  \o Lines("recommendation", "", r.recommendations)
  \o Lines("optimization", "", r.optimizations_found)
  \o vpa_flag_lines("performance_pattern", r.performance_patterns, "true", "false")
  \o vpa_flag_lines("brazilian_pattern", r.brazilian_patterns, "true", "false")

\* C13, a plausible bug: an estimate equal to the target counted as a miss
vpa_exit_code_below(r, target_ms) == IF r.voice_response_time < target_ms THEN 0 ELSE 1

\* main: sys.exit(0 if results['voice_response_time'] <= args.target_ms else 1)
vpa_exit_code(r, target_ms) == IF r.voice_response_time <= target_ms THEN 0 ELSE 1


\* ---- validate_architecture.py (av)

\* ArchitectureValidator.__init__: self.results
av_new ==
  [valid |-> TRUE, errors |-> <<>>, warnings |-> <<>>, recommendations |-> <<>>,
   checks_performed |-> <<>>]

\* the checks of validate_all, in the order it runs them
av_checks ==
  <<"technology_stack", "security_patterns", "voice_interface", "performance_patterns",
    "brazilian_integration", "code_quality", "database_design">>

\* validate_technology_stack: required_files
required_files ==
  <<"package.json", "bun.lockb", "vite.config.ts", "tailwind.config.ts", "tsconfig.json">>

\* validate_security_patterns: credential_patterns
credential_patterns ==
  <<"supabase\\.co.*eyJ",
    "api[_-]?key.*=.*[\"'][^\"']+[\"']",
    "secret.*=.*[\"'][^\"']+[\"']",
    "password.*=.*[\"'][^\"']+[\"']">>

\* What validate_architecture.py finds in a project directory:
\*   files         the required files that exist
\*   package_json  what json.load makes of package.json when it exists: every
\*                 required dependency listed ("complete"), 'hono' not listed
\*                 ("incomplete"), or not JSON ("JSONDecodeError")
\*   credentials   the credential patterns for which _search_in_files returns
\*                 a match
\*   found         whether the pattern searches, the test files, the lint
\*                 configuration and the migrations of the other checks are found
Projects ==
  [files : SUBSET {required_files[i] : i \in DOMAIN required_files},
   package_json : {"complete", "incomplete", "JSONDecodeError"},
   credentials : SUBSET {credential_patterns[i] : i \in DOMAIN credential_patterns},
   found : BOOLEAN]

\* validate_technology_stack: an error for every required file that is
\* missing, then the dependencies of package.json when the file exists
validate_technology_stack(p, r) ==
  LET missing == SelectSeq(required_files, LAMBDA file : file \notin p.files)
      r1 == [r EXCEPT !.checks_performed = Append(@, "technology_stack"),
                      !.errors = @ \o [i \in DOMAIN missing |-> "Missing required file: " \o missing[i]],
                      !.valid = IF missing # <<>> THEN FALSE ELSE @]
  IN IF "package.json" \notin p.files THEN Outcome("none", r1)
     ELSE IF p.package_json = "JSONDecodeError" THEN Outcome("JSONDecodeError", r1)
     ELSE Outcome("none",
            [r1 EXCEPT !.warnings = @ \o When(p.package_json = "incomplete",
                                              "Missing recommended dependency: hono")])

\* C26, a plausible bug: a credential match reported as an error while valid
\* is left as it was
validate_security_patterns_reports(p, r) ==
  LET matched == SelectSeq(credential_patterns, LAMBDA pattern : pattern \in p.credentials)
  IN Outcome("none",
       [r EXCEPT !.checks_performed = Append(@, "security_patterns"),
                 !.warnings = @ \o When(~p.found, "Consider using environment variables for sensitive data"),
                 !.errors = @ \o [i \in DOMAIN matched |->
                                    "Potential hardcoded credentials found: " \o matched[i]]])

\* validate_security_patterns: the warning of the environment check (the RLS
\* check warns only where supabase/migrations exists), then an error for every
\* credential pattern that matches
validate_security_patterns(p, r) ==
  LET matched == SelectSeq(credential_patterns, LAMBDA pattern : pattern \in p.credentials)
  IN Outcome("none",
       [r EXCEPT !.checks_performed = Append(@, "security_patterns"),
                 !.warnings = @ \o When(~p.found, "Consider using environment variables for sensitive data"),
                 !.errors = @ \o [i \in DOMAIN matched |->
                                    "Potential hardcoded credentials found: " \o matched[i]],
                 !.valid = IF matched # <<>> THEN FALSE ELSE @])

\* validate_voice_interface, validate_performance_patterns,
\* validate_brazilian_integration, validate_code_quality and
\* validate_database_design: what each appends when nothing is found; the
\* bundle splitting advice needs vite.config.ts, the warnings of
\* validate_code_quality need tsconfig.json, and validate_database_design
\* returns after its first recommendation where there is no supabase directory
av_advice(p, check) ==
  CASE check = "voice_interface" ->
         [warnings |-> <<>>,
          recommendations |-> <<"Consider adding voice interface components for voice-first experience",
                                "Add accessibility features for WCAG 2.1 AA compliance">>]
    [] check = "performance_patterns" ->
         [warnings |-> <<>>,
          recommendations |-> <<"Consider adding performance optimizations for sub-500ms voice responses">>
                              \o When("vite.config.ts" \in p.files,
                                      "Consider adding bundle splitting for optimal loading")]
    [] check = "brazilian_integration" ->
         [warnings |-> <<>>,
          recommendations |-> <<"Consider adding Brazilian market features (PIX, boletos, etc.)",
                                "Consider adding Brazilian Portuguese localization">>]
    [] check = "code_quality" ->
         [warnings |-> IF "tsconfig.json" \in p.files
                       THEN <<"Enable TypeScript strict mode for better type safety",
                              "Enable noImplicitAny for better type safety">>
                       ELSE <<>>,
          recommendations |-> <<"Consider adding tests for critical financial operations",
                                "Consider adding code quality tools (OXLint, Biome)">>]
    [] check = "database_design" ->
         [warnings |-> <<>>,
          recommendations |-> <<"Consider setting up Supabase for database management">>]

\* one of the five checks that append warnings and recommendations only
av_advise(p, r, check) ==
  Outcome("none",
    [r EXCEPT !.checks_performed = Append(@, check),
              !.warnings = @ \o (IF p.found THEN <<>> ELSE av_advice(p, check).warnings),
              !.recommendations = @ \o (IF p.found THEN <<>> ELSE av_advice(p, check).recommendations)])

\* one check of validate_all
av_validate(p, r, check) ==
  CASE check = "technology_stack" -> validate_technology_stack(p, r)
    [] check = "security_patterns" -> validate_security_patterns(p, r)
    [] OTHER -> av_advise(p, r, check)

\* print_results(output_format)
av_report(r, format) ==
  (IF format = "json" THEN <<Line("valid", "", 0, IF r.valid THEN "true" ELSE "false")>>
   ELSE <<Line("valid", "", 0, IF r.valid THEN "ARCHITECTURE VALIDATION PASSED"
                               ELSE "ARCHITECTURE VALIDATION FAILED")>>)
  \o Lines("error", "", r.errors)
  \o Lines("warning", "", r.warnings)
  \o Lines("recommendation", "", r.recommendations)
  \o (IF format = "json" THEN Lines("check", "", r.checks_performed)
      ELSE <<Line("checks", "", 0, join(r.checks_performed))>>)

\* main: sys.exit(0 if results['valid'] else 1)
av_exit_code(r) == IF r.valid THEN 0 ELSE 1
\* ======================================================================
\* the state machine
\* ======================================================================

Tools == {"bcv", "cv", "pa", "vpa"}

\* the results a newly constructed object of the tool holds
new_results(tl, a) ==
  CASE tl = "bcv" -> bcv_new
    [] tl = "cv" -> cv_new
    [] tl = "pa" -> pa_new
    [] tl = "vpa" -> vpa_new(a[1])

\* the command lines of the tool
tool_args(tl) ==
  CASE tl = "bcv" -> bcv_check_args
    [] tl = "cv" -> {<<>>}
    [] tl = "pa" -> {<<>>}
    [] tl = "vpa" -> vpa_target_args

\* the run operation of the tool
run(tl, t, r, a) ==
  CASE tl = "bcv" -> validate_all(t, r, a)
    [] tl = "cv" -> validate_project(t, r)
    [] tl = "pa" -> audit_all(t, r)
    [] tl = "vpa" -> analyze_all(t, r)

\* what print_results(format) writes, and the results it leaves
print_outcome(tl, r, format) ==
  CASE tl = "bcv" -> [results |-> r,
                      report |-> IF format = "json" THEN bcv_json_report(r) ELSE bcv_text_report(r)]
    [] tl = "cv" -> [results |-> r, report |-> generate_report(r)]
    [] tl = "pa" -> [results |-> r,
                     report |-> IF format = "json" THEN pa_json_report(r) ELSE pa_text_report(r)]
    [] tl = "vpa" -> [results |-> vpa_print_results(r),
                      report |-> IF format = "json" THEN vpa_json_report(vpa_print_results(r))
                                 ELSE vpa_text_report(vpa_print_results(r))]

\* the output formats of the tool's report
formats(tl) == IF tl = "cv" THEN {"text"} ELSE {"text", "json"}

\* the exit status main ends with after printing
main_exit_code(tl, r, a) ==
  CASE tl = "bcv" -> bcv_exit_code(r)
    [] tl = "cv" -> cv_exit_code(r)
    [] tl = "pa" -> pa_exit_code(r)
    [] tl = "vpa" -> vpa_exit_code(r, a[1])

\* what the tree of a root holds: rglob, glob and exists find nothing under a
\* directory that does not exist
root_trees(rt) == IF rt = "dir" THEN Trees ELSE {<<>>}

\* `if not project_path.exists(): return {'error': ...}` of validate_project;
\* the other tools construct the object and run without looking at the path
path_not_found(tl, rt) == tl = "cv" /\ rt = "missing"

Init ==
  /\ root \in {"dir", "missing"}
  /\ tree \in root_trees(root)
  /\ tool \in Tools
  /\ args \in tool_args(tool)
  /\ pc = "constructed"
  /\ results = new_results(tool, args)
  /\ runs = 0
  /\ prints = 0
  /\ first = new_results(tool, args)
  /\ stdout = [format |-> "none", lines |-> <<>>]
  /\ exit_code = -1
  /\ raised = "none"

\* The run operation: validate_all / validate_project / audit_all / analyze_all,
\* called by main or called again by a caller that keeps the object.  When an
\* exception leaves it, the interpreter prints the traceback and the process
\* ends with status 1; no report is written.
Run ==
  /\ pc \in {"constructed", "returned", "printed"}
  /\ runs < MaxRuns
  /\ ~path_not_found(tool, root)
  /\ \E o \in {run(tool, tree, results, args)} :
       /\ results' = o.results
       /\ first' = IF runs = 0 /\ o.raised = "none" THEN o.results ELSE first
       /\ pc' = IF o.raised = "none" THEN "returned" ELSE "raised"
       /\ exit_code' = IF o.raised = "none" THEN exit_code ELSE 1
       /\ raised' = o.raised
  /\ runs' = runs + 1
  /\ UNCHANGED <<root, tree, tool, args, prints, stdout>>

\* print_results(format)
PrintResults(format) ==
  /\ pc \in {"returned", "printed"}
  /\ prints < MaxPrints
  /\ \E o \in {print_outcome(tool, results, format)} :
       /\ results' = o.results
       /\ stdout' = [format |-> format, lines |-> o.report]
  /\ pc' = "printed"
  /\ prints' = prints + 1
  /\ UNCHANGED <<root, tree, tool, args, runs, first, exit_code, raised>>

\* main's last statement: sys.exit after one run and one report
Exit ==
  /\ pc = "printed"
  /\ runs = 1
  /\ prints = 1
  /\ exit_code' = main_exit_code(tool, results, args)
  /\ pc' = "exited"
  /\ UNCHANGED <<root, tree, tool, args, results, runs, prints, first, stdout, raised>>

\* main of compliance-validator.py when validate_project returns the error
\* dictionary: the error is printed and the process ends with status 1;
\* validation_results are as constructed
PathNotFound ==
  /\ pc = "constructed"
  /\ path_not_found(tool, root)
  /\ stdout' = [format |-> "text", lines |-> <<Line("error", "", 0, "Project path not found")>>]
  /\ exit_code' = 1
  /\ pc' = "failed"
  /\ UNCHANGED <<root, tree, tool, args, results, runs, prints, first, raised>>

Next ==
  \/ Run
  \/ PathNotFound
  \/ \E format \in formats(tool) : PrintResults(format)
  \/ Exit

Spec == Init /\ [][Next]_vars


\* ---- calculate_performance_score on its own
\* The results of voice_performance_analyzer.py when the five analyses of
\* analyze_all are through: p performance flags and b Brazilian flags set, k
\* optimizations found, issues recorded or not.
flags_set(d, k) == [i \in DOMAIN d |-> Item(d[i].key, i <= k)]

analysed(target_ms) ==
  { [vpa_new(target_ms) EXCEPT
       !.performance_patterns = flags_set(@, p),
       !.brazilian_patterns = flags_set(@, b),
       !.optimizations_found = [i \in 1..k |-> "optimization"],
       !.issues = IF issue THEN <<"issue">> ELSE <<>>] :
    p \in 0..5, b \in 0..4, k \in 0..MaxFound, issue \in BOOLEAN }

InitScore ==
  /\ root = "dir"
  /\ tree = <<>>
  /\ tool = "vpa"
  /\ args \in vpa_target_args
  /\ pc = "analysed"
  /\ results \in analysed(args[1])
  /\ runs = 0
  /\ prints = 0
  /\ first = results
  /\ stdout = [format |-> "none", lines |-> <<>>]
  /\ exit_code = -1
  /\ raised = "none"

\* the last statement of analyze_all: self.calculate_performance_score()
CalculatePerformanceScore ==
  /\ pc = "analysed"
  /\ results' = calculate_performance_score(results)
  /\ first' = results'
  /\ pc' = "returned"
  /\ runs' = 1
  /\ UNCHANGED <<root, tree, tool, args, prints, stdout, exit_code, raised>>

NextScore == CalculatePerformanceScore

SpecScore == InitScore /\ [][NextScore]_vars


\* ---- the band and the exit status of performance_audit.py on their own
\* The results of performance_audit.py when the six audits of audit_all are
\* through: three categories at 70, 80 and 90, the three others at any multiple
\* of 5 from 50 to 100.
audited ==
  { [pa_new EXCEPT
       !.voice_performance.score = 50 + 5 * v,
       !.bundle_optimization.score = 50 + 5 * b,
       !.database_performance.score = 50 + 5 * d,
       !.realtime_performance.score = 70,
       !.mobile_optimization.score = 80,
       !.core_web_vitals.score = 90] :
    v \in 0..10, b \in 0..10, d \in 0..10 }

InitLabel ==
  /\ root = "dir"
  /\ tree = <<>>
  /\ tool = "pa"
  /\ args = <<>>
  /\ pc = "audited"
  /\ results \in audited
  /\ runs = 0
  /\ prints = 0
  /\ first = results
  /\ stdout = [format |-> "none", lines |-> <<>>]
  /\ exit_code = -1
  /\ raised = "none"

\* the last statement of audit_all: self.calculate_overall_score()
CalculateOverallScore ==
  /\ pc = "audited"
  /\ results' = calculate_overall_score(results)
  /\ first' = results'
  /\ pc' = "returned"
  /\ runs' = 1
  /\ UNCHANGED <<root, tree, tool, args, prints, stdout, exit_code, raised>>

\* main after audit_all: print_results(args.output), then sys.exit
NextLabel ==
  \/ CalculateOverallScore
  \/ \E format \in formats(tool) : PrintResults(format)
  \/ Exit

SpecLabel == InitLabel /\ [][NextLabel]_vars


\* ---- validate_architecture.py, check by check
InitArch ==
  /\ root = "dir"
  /\ tree \in Projects
  /\ tool = "av"
  /\ args = <<>>
  /\ pc = "constructed"
  /\ results = av_new
  /\ runs = 0
  /\ prints = 0
  /\ first = results
  /\ stdout = [format |-> "none", lines |-> <<>>]
  /\ exit_code = -1
  /\ raised = "none"

\* validate_all: the next of its checks; it returns after the last, and an
\* exception that leaves a check ends the process with a traceback
Validate(check) ==
  /\ pc \in {"constructed", "validating"}
  /\ check = av_checks[Len(results.checks_performed) + 1]
  /\ \E o \in {av_validate(tree, results, check)} :
       /\ results' = o.results
       /\ raised' = o.raised
       /\ pc' = IF o.raised # "none" THEN "raised"
                ELSE IF Len(o.results.checks_performed) = Len(av_checks) THEN "returned"
                ELSE "validating"
       /\ exit_code' = IF o.raised # "none" THEN 1 ELSE exit_code
       /\ first' = IF pc' = "returned" THEN o.results ELSE first
       /\ runs' = IF pc' = "returned" THEN 1 ELSE runs
  /\ UNCHANGED <<root, tree, tool, args, prints, stdout>>

\* main: validator.print_results(args.output)
PrintArchResults(format) ==
  /\ pc = "returned"
  /\ stdout' = [format |-> format, lines |-> av_report(results, format)]
  /\ pc' = "printed"
  /\ prints' = prints + 1
  /\ UNCHANGED <<root, tree, tool, args, results, runs, first, exit_code, raised>>

\* main: sys.exit(0 if results['valid'] else 1)
ExitArch ==
  /\ pc = "printed"
  /\ exit_code' = av_exit_code(results)
  /\ pc' = "exited"
  /\ UNCHANGED <<root, tree, tool, args, results, runs, prints, first, stdout, raised>>

NextArch ==
  \/ \E check \in {av_checks[i] : i \in DOMAIN av_checks} : Validate(check)
  \/ \E format \in {"text", "json"} : PrintArchResults(format)
  \/ ExitArch

SpecArch == InitArch /\ [][NextArch]_vars
\* ======================================================================
\* properties
\* ======================================================================

\* the run operation has returned (and a report may have been printed since)
completed == pc \in {"returned", "printed", "exited"}

\* the first run on a newly constructed object has returned, nothing else since
first_run_returned == runs = 1 /\ pc = "returned"

\* the category scores a Result holds
category_scores(tl, r) ==
  CASE tl = "bcv" -> {r.brazilian_compliance[bcv_categories[i]].score : i \in DOMAIN bcv_categories}
    [] tl = "cv" -> {r[cv_categories[i]].score : i \in DOMAIN cv_categories}
    [] tl = "pa" -> {r[pa_categories[i]].score : i \in DOMAIN pa_categories}
    [] tl = "vpa" -> {}

\* the run operation on a newly constructed object of the tool
fresh_run(tl, t, a) == run(tl, t, new_results(tl, a), a)

\* ---- C1: after a run of any scoring tool over any tree, every category score
\* lies in 0..100.
C1_CategoryScoresInRange ==
  completed => \A s \in category_scores(tool, results) : s >= 0 /\ s <= 100

\* ---- C2: once the root exists, no read failure on anything under it leaves
\* the scan: every run completes and reaches report output.
C2_NoFailureLeavesTheScan ==
  pc # "raised" /\ raised = "none"

\* a source file whose read raises a decode or permission error
unreadable_source(e) ==
  /\ is_file(e)
  /\ e.read \in DecodeOrPermission
  /\ \E i \in DOMAIN extensions : "." \o e.ext = extensions[i]

\* the tree with one file of its i-th entry removed: the entry goes when it
\* stands for one file, and stands for one file less otherwise
without(t, i) ==
  IF t[i].n > 1
  THEN [t EXCEPT ![i].n = @ - 1]
  ELSE [j \in 1..(Len(t) - 1) |-> IF j < i THEN t[j] ELSE t[j + 1]]

\* ---- C3: a source file whose read raises a decode or permission error matches
\* no pattern, is not counted and does not stop the scan: the Result is the
\* Result of the same tree without that file.
C3_UnreadableFileAsIfRemoved ==
  first_run_returned =>
    \A i \in DOMAIN tree :
      unreadable_source(tree[i]) =>
        /\ fresh_run(tool, without(tree, i), args).raised = "none"
        /\ fresh_run(tool, without(tree, i), args).results = results

\* ---- C4: two runs over an unchanged tree produce an identical Result, also
\* when the second run is the run operation called again on the same object.
C4_RerunGivesSameResult ==
  (runs >= 2 /\ pc = "returned" /\ prints = 0) => results = first

\* ---- C5: print_results, in either mode and any number of times, leaves every
\* field of the Result as the analysis returned it.
C5_PrintLeavesResult ==
  (runs = 1 /\ pc = "printed") => results = first

\* the listings of the same entries in another order
orders(t) ==
  { s \in [DOMAIN t -> {t[i] : i \in DOMAIN t}] : \A i \in DOMAIN t : \E j \in DOMAIN t : s[j] = t[i] }

\* ---- C6: for a fixed set of files with fixed contents the Result is the same
\* whatever order the file system lists them in.
C6_ListingOrderIrrelevant ==
  (runs = 1 /\ pc \in {"returned", "raised"}) =>
    \A s \in orders(tree) :
      /\ fresh_run(tool, s, args).raised = raised
      /\ fresh_run(tool, s, args).results = results

\* ---- C7: in brazilian_compliance_validator.py and performance_audit.py a
\* completed run is classified valid and exits 0 if and only if the overall
\* score is at least 70.
C7_PassIffScoreAtLeast70 ==
  /\ (tool = "bcv" /\ runs = 1 /\ completed) =>
        (results.valid <=> results.compliance_score >= 70)
  /\ (tool = "bcv" /\ pc = "exited") =>
        /\ exit_code = 0 <=> results.compliance_score >= 70
        /\ exit_code = 1 <=> results.compliance_score < 70
  /\ (tool = "pa" /\ pc = "exited") =>
        /\ exit_code = 0 <=> results.overall_score >= 70 * 10
        /\ exit_code = 1 <=> results.overall_score < 70 * 10

\* C7, the boundary: a run that scored exactly 70 has exited with status 0.
C7_Witness ==
  /\ tool = "bcv" /\ pc = "exited"
  /\ results.compliance_score = 70
  /\ results.valid /\ exit_code = 0

\* the report print_results('json') writes for a Result
json_report(tl, r) ==
  CASE tl = "bcv" -> bcv_json_report(r)
    [] tl = "pa" -> pa_json_report(r)
    [] tl = "vpa" -> vpa_json_report(r)
    [] tl = "cv" -> <<>>

\* a report shows the value of a line: the same score for the same category, or
\* the same string in the same list
shows(lines, l) ==
  \E i \in DOMAIN lines :
    /\ lines[i].kind = l.kind /\ lines[i].key = l.key
    /\ IF l.kind = "score" THEN lines[i].num = l.num ELSE lines[i].text = l.text

\* ---- C8: the text report and the JSON report of a Result agree: every
\* category score and every issue and recommendation of the JSON output is in
\* the text output with the same value, whatever the category's score.
C8_TextShowsWhatJsonShows ==
  (pc = "printed" /\ stdout.format = "text") =>
    \A i \in DOMAIN json_report(tool, results) :
      json_report(tool, results)[i].kind \in {"score", "issue", "recommendation"} =>
        shows(stdout.lines, json_report(tool, results)[i])

\* the tree holds no file (it may hold directories)
no_files(t) == \A i \in DOMAIN t : ~is_file(t[i])

\* what performance_audit.py takes off a category's 100 on a tree without
\* files: the weights of the checks that find nothing there, whether they
\* report an issue or only a recommendation; the index check is made only when
\* the migrations directory exists, and the checks for inefficient queries and
\* for a missing subscription cleanup take nothing off
pa_empty_deduction(t, c) ==
  CASE c = "voice_performance" -> 4 * 15 + 20 + 10
    [] c = "bundle_optimization" -> 50 + 25 + 15
    [] c = "database_performance" -> (IF migrations_dir_exists(t) THEN 30 ELSE 0) + 25
    [] c = "realtime_performance" -> 40 + 25
    [] c = "mobile_optimization" -> 30 + 25 + 20
    [] c = "core_web_vitals" -> 30 + 25 + 20 + 25

pa_required_weights(c) ==
  CASE c = "voice_performance" -> 4 * 15 + 20
    [] c = "bundle_optimization" -> 50 + 25
    [] c = "database_performance" -> 30 + 3 * 20
    [] c = "realtime_performance" -> 20
    [] c = "mobile_optimization" -> 0
    [] c = "core_web_vitals" -> 0

consentimento_in(files) ==
  \E i \in DOMAIN files :
    read_outcome(files[i]) = "ok" /\ str_contains("consentimento", lower(files[i].text))

\* ---- C10: if any readable file that the tool scans contains "consentimento"
\* in any letter case, the consent-management check is satisfied and the LGPD
\* category receives its weight: 20 in brazilian_compliance_validator.py, 25 in
\* compliance-validator.py.
C10_ConsentimentoSatisfiesConsent ==
  /\ (first_run_returned /\ tool = "bcv" /\ args \in {<<>>, <<"lgpd">>}
        /\ consentimento_in(code_files(tree))) =>
       /\ \A i \in DOMAIN results.brazilian_compliance.lgpd.issues :
            results.brazilian_compliance.lgpd.issues[i] # "Missing consent management implementation"
       /\ results.brazilian_compliance.lgpd.score >= 20
  /\ (first_run_returned /\ tool = "cv"
        /\ consentimento_in(_collect_source_files(tree))) =>
       /\ \A i \in DOMAIN results.lgpd_compliance.issues :
            results.lgpd_compliance.issues[i] # cv_lgpd_rules[1].issue
       /\ results.lgpd_compliance.score >= 25

\* ---- C11: when the root path does not exist the tool fails fast, whatever the
\* tool and its options: nothing is scanned or scored (the results stay as
\* constructed), the only output is a single error, and the process ends with a
\* nonzero status.
C11_MissingRootFailsFast ==
  root = "missing" =>
    /\ results = new_results(tool, args)
    /\ stdout.format # "none" =>
         /\ Len(stdout.lines) = 1
         /\ stdout.lines[1].kind = "error"
    /\ pc \in {"exited", "failed", "raised"} => exit_code > 0

\* ---- C12: in compliance-validator.py the exit status of a completed scan is
\* keyed to the band of the overall score: 0 exactly for 80 and more, 1 exactly
\* for 60 to 79, 2 exactly for less than 60.
C12_ExitCodeByBand ==
  (tool = "cv" /\ pc = "exited") =>
    /\ exit_code = 0 <=> results.overall_score >= 80
    /\ exit_code = 1 <=> (results.overall_score >= 60 /\ results.overall_score < 80)
    /\ exit_code = 2 <=> results.overall_score < 60

\* C12, the lower boundary: a scan that scored exactly 60 has exited with 1.
C12_Witness ==
  /\ tool = "cv" /\ pc = "exited"
  /\ results.overall_score = 60
  /\ exit_code = 1

\* the issue calculate_performance_score records for an estimate above the target
exceeds_target_by(n) == "Voice response time exceeds target by " \o ToString(n) \o "ms"

\* the estimates of the step table
estimates == {150, 180, 220, 280, 350}

\* ---- C13: in voice_performance_analyzer.py the run exits 0 if and only if the
\* estimated voice_response_time is at most the target_ms of the command line,
\* and the issue "Voice response time exceeds target by N ms", with N the
\* estimate minus the target, is recorded if and only if the estimate exceeds
\* the target.
C13_ExitAndIssueByTarget ==
  (tool = "vpa" /\ runs = 1 /\ completed) =>
    /\ (\E i \in DOMAIN results.issues :
          results.issues[i] = exceeds_target_by(results.voice_response_time - args[1]))
         <=> results.voice_response_time > args[1]
    /\ \A e \in estimates : \A i \in DOMAIN results.issues :
         results.issues[i] = exceeds_target_by(e - args[1]) => e = results.voice_response_time
    /\ pc = "exited" => (exit_code = 0 <=> results.voice_response_time <= args[1])

\* C13, the boundary: a run whose estimate equals the target has exited with 0
\* and recorded no such issue.
C13_Witness ==
  /\ tool = "vpa" /\ pc = "exited"
  /\ results.voice_response_time = args[1]
  /\ exit_code = 0
  /\ \A i \in DOMAIN results.issues : results.issues[i] # exceeds_target_by(0)

\* ---- C14: voice_response_time is determined by performance_score alone,
\* through the step table read from the highest bound down: 150 from 90 on,
\* 180 from 80 on, 220 from 70 on, 280 from 60 on, 350 below; so the estimate is
\* one of these five values and never increases when the score increases.
\* (performance_score is held in halves of a point.)
C14_EstimateByStepTable ==
  (tool = "vpa" /\ pc = "returned") =>
    /\ results.performance_score >= 2 * 90 => results.voice_response_time = 150
    /\ (results.performance_score >= 2 * 80 /\ results.performance_score < 2 * 90)
         => results.voice_response_time = 180
    /\ (results.performance_score >= 2 * 70 /\ results.performance_score < 2 * 80)
         => results.voice_response_time = 220
    /\ (results.performance_score >= 2 * 60 /\ results.performance_score < 2 * 70)
         => results.voice_response_time = 280
    /\ results.performance_score < 2 * 60 => results.voice_response_time = 350
    /\ results.voice_response_time \in estimates
    /\ \A score \in 0..(2 * 100) :
         score >= results.performance_score => response_time(score) <= results.voice_response_time

\* C14, a boundary of the table: a score of exactly 70 is estimated at 220.
C14_Witness ==
  /\ tool = "vpa" /\ pc = "returned"
  /\ results.performance_score = 2 * 70
  /\ results.voice_response_time = 220

\* the list holds the message
listed(xs, msg) == \E i \in DOMAIN xs : xs[i] = msg

\* ---- C15: rules are mutually independent: whether a rule changes the score
\* or emits an issue or recommendation depends only on that rule's own match,
\* never on the outcome of another rule.  For the subscription cleanup rule of
\* performance_audit.py: its issue is emitted, and its 20 points are taken,
\* exactly when its own pattern is found in no file.
C15_RulesIndependent ==
  (tool = "pa" /\ first_run_returned) =>
    ( listed(results.realtime_performance.issues, "Missing subscription cleanup")
      <=> _search_in_files(tree, "channel.*unsubscribe|cleanup.*subscription", <<"ts", "tsx">>) = "False" )

\* some readable file of `files` holds one of the patterns, in any letter case
pattern_in(files, patterns) ==
  \E i \in DOMAIN files : \E j \in DOMAIN patterns :
    read_outcome(files[i]) = "ok" /\ str_contains(patterns[j], lower(files[i].text))

\* ---- C16: a run processes the whole enumerated file set: a pattern that
\* occurs in any one readable file with a scanned extension satisfies its
\* check, however many files the tree holds.  For compliance-validator.py: a
\* rule one of whose patterns is in a collected file reports no issue.
C16_WholeFileSetProcessed ==
  (tool = "cv" /\ first_run_returned) =>
    \A i \in DOMAIN cv_categories : \A j \in DOMAIN cv_rules(cv_categories[i]) :
      pattern_in(_collect_source_files(tree), cv_rules(cv_categories[i])[j].patterns)
        => ~listed(results[cv_categories[i]].issues, cv_rules(cv_categories[i])[j].issue)

\* ---- C17: for every presence rule left unsatisfied after the scan exactly
\* one message is emitted, an Issue in the rule's category if the rule is
\* required and a Recommendation otherwise; a satisfied rule emits neither.
\* For the rules of compliance-validator.py, all of them required: an
\* unsatisfied rule has its issue listed and no recommendation, a satisfied
\* rule has neither.
C17_OneMessagePerUnsatisfiedRule ==
  (tool = "cv" /\ first_run_returned) =>
    \A i \in DOMAIN cv_categories : \A j \in DOMAIN cv_rules(cv_categories[i]) :
      /\ listed(results[cv_categories[i]].issues, cv_rules(cv_categories[i])[j].issue)
           <=> ~_check_pattern_presence(_analyze_files_content(_collect_source_files(tree)),
                                        cv_rules(cv_categories[i])[j].patterns)
      /\ ~listed(results[cv_categories[i]].recommendations,
                 cv_rules(cv_categories[i])[j].recommendation)

\* ---- C18: under the accrual policy (brazilian_compliance_validator.py and
\* compliance-validator.py) a category starts at 0 and its score is the sum of
\* the weights of its satisfied checks, each added exactly once however many
\* files match it, clamped to 0..100.  So one more readable file with the
\* content of a file already there changes no category score, and no score
\* passes 100.
C18_AccrualOncePerCheck ==
  (first_run_returned /\ tool \in {"bcv", "cv"}) =>
    /\ \A i \in DOMAIN tree :
         (tree[i].n > 1 /\ read_outcome(tree[i]) = "ok") =>
           category_scores(tool, fresh_run(tool, without(tree, i), args).results)
             = category_scores(tool, results)
    /\ \A s \in category_scores(tool, results) : s <= 100

\* the weight performance_audit.py takes off for the check that made a
\* recommendation (every check that takes points off makes one)
weight_of(recommendation) ==
  CASE recommendation = "Set up Vite configuration with optimization features" -> 50
    [] recommendation = "Implement real-time synchronization for instant updates" -> 40
    [] recommendation \in {"Add indexes for frequently queried columns",
                           "Implement responsive design for mobile devices",
                           "Set up Core Web Vitals monitoring"} -> 30
    [] recommendation \in {"Implement lazy loading for better initial load times",
                           "Implement query result caching for better performance",
                           "Implement optimistic updates for better UX",
                           "Ensure buttons and interactive elements are touch-friendly",
                           "Optimize images for better LCP",
                           "Ensure layout stability to prevent CLS"} -> 25
    [] recommendation \in {"Ensure voice processing is non-blocking with async/await",
                           "Enable code splitting for smaller bundles",
                           "Enable tree shaking for smaller bundles",
                           "Enable minification for smaller bundles",
                           "Enable asset optimization for smaller bundles",
                           "Optimize database queries for better performance",
                           "Ensure real-time subscriptions are properly cleaned up",
                           "Add mobile-specific viewport and performance optimizations",
                           "Optimize font loading for better performance"} -> 20
    [] recommendation \in {"Implement preload models to improve voice response times",
                           "Implement web workers to improve voice response times",
                           "Implement caching to improve voice response times",
                           "Implement batching to improve voice response times",
                           "Set up bundle size analysis and monitoring"} -> 15
    [] recommendation = "Document voice response time targets (<500ms)" -> 10

positive(r) ==
  {i \in DOMAIN bcv_categories : r.brazilian_compliance[bcv_categories[i]].score > 0}

\* the sum of the category scores above 0
positive_total(r) ==
  Sum([i \in DOMAIN bcv_categories |->
         IF i \in positive(r) THEN r.brazilian_compliance[bcv_categories[i]].score ELSE 0])

\* ---- C20: in brazilian_compliance_validator.py the compliance_score is the
\* floor of the arithmetic mean of the category scores greater than 0, and 0
\* when there is none; a category that scored 0, not selected or run without
\* scoring, is left out of the mean.
C20_MeanOfPositiveScores ==
  (tool = "bcv" /\ completed) =>
    IF positive(results) = {}
    THEN results.compliance_score = 0
    ELSE /\ results.compliance_score * Cardinality(positive(results)) <= positive_total(results)
         /\ positive_total(results) < (results.compliance_score + 1) * Cardinality(positive(results))

\* C20, its case: all four checks were run, some scored 0 and the others have
\* a mean that is no whole number.
C20_Witness ==
  /\ tool = "bcv" /\ first_run_returned /\ args = <<>>
  /\ positive(results) # {}
  /\ Cardinality(positive(results)) < Len(bcv_categories)
  /\ results.compliance_score * Cardinality(positive(results)) < positive_total(results)

\* the sum of all the category scores of compliance-validator.py
cv_total(r) == Sum([i \in DOMAIN cv_categories |-> r[cv_categories[i]].score])

\* the sum of all the category scores of performance_audit.py
pa_total(r) == Sum([i \in DOMAIN pa_categories |-> r[pa_categories[i]].score])

\* ---- C21: in compliance-validator.py overall_score is the floor of the sum
\* of the four category scores divided by 4; in performance_audit.py it is the
\* mean of the six category scores rounded to one decimal (held in tenths);
\* categories that scored 0 count in both means.
C21_MeanOverAllCategories ==
  /\ (tool = "cv" /\ completed) =>
       /\ 4 * results.overall_score <= cv_total(results)
       /\ cv_total(results) < 4 * (results.overall_score + 1)
  /\ (tool = "pa" /\ completed) =>
       /\ 6 * results.overall_score - 10 * pa_total(results) <= 3
       /\ 10 * pa_total(results) - 6 * results.overall_score <= 3

\* C21, its case: a scan in which some category scored 0 and the sum of the
\* four scores is no multiple of 4.
C21_Witness ==
  /\ tool = "cv" /\ first_run_returned
  /\ \E i \in DOMAIN cv_categories : results[cv_categories[i]].score = 0
  /\ 4 * results.overall_score < cv_total(results)

\* ---- C22: a presence check backed by a list of synonym patterns is satisfied
\* if and only if at least one of its patterns matches the content of at least
\* one scanned readable file: a logical OR over the patterns and over the
\* files.  For compliance-validator.py: a rule reports no issue exactly when
\* one of its patterns is in one of the readable files that the scan collected.
C22_SatisfiedIffSomePatternInSomeFile ==
  (tool = "cv" /\ first_run_returned) =>
    \A i \in DOMAIN cv_categories : \A j \in DOMAIN cv_rules(cv_categories[i]) :
      ~listed(results[cv_categories[i]].issues, cv_rules(cv_categories[i])[j].issue)
        <=> pattern_in(_collect_source_files(tree), cv_rules(cv_categories[i])[j].patterns)

\* the number of matches of the patterns in the readable .ts and .tsx files of t
matches_in(t, patterns) ==
  Sum([i \in DOMAIN code_files(t) |->
         IF read_outcome(code_files(t)[i]) = "ok"
         THEN Sum([j \in DOMAIN patterns |->
                     code_files(t)[i].n * re_findall_count(patterns[j], code_files(t)[i].text)])
         ELSE 0])

\* what the memory categories contribute, each min(2 * count, 10)
memory_total(t) ==
  LET memory_patterns == [ cleanup_patterns |-> <<"clearInterval", "clearTimeout", "abortController", "cleanup", "dispose", "unsubscribe">>,
                           leak_prevention |-> <<"useEffect.*\\[\\].*return.*cleanup", "componentWillUnmount", "removeEventListener", "cancelAnimationFrame">>,
                           resource_management |-> <<"RefObject", "useRef", "WeakMap", "WeakSet", "finalize">> ]
      memory_patterns_keys == <<"cleanup_patterns", "leak_prevention", "resource_management">>
  IN
  Sum([k \in DOMAIN memory_patterns_keys |->
         Min(2 * matches_in(t, memory_patterns[memory_patterns_keys[k]]), 10)])

\* what the caching categories contribute, each min(count, 5)
cache_total(t) ==
  LET cache_patterns == [ react_query |-> <<"useQuery", "useMutation", "queryClient", "staleTime", "cacheTime">>,
                          voice_caching |-> <<"cache.*voice", "voice.*cache", "command.*cache", "recognition.*cache">>,
                          general_caching |-> <<"cache\\(|Map\\(|localStorage", "sessionStorage", "TTL|ttl", "expire">> ]
      cache_patterns_keys == <<"react_query", "voice_caching", "general_caching">>
  IN
  Sum([k \in DOMAIN cache_patterns_keys |->
         Min(matches_in(t, cache_patterns[cache_patterns_keys[k]]), 5)])

\* ---- C23: in the count-mode analyses of voice_performance_analyzer.py a
\* category's count is the sum over its patterns and over the readable .ts and
\* .tsx files of the number of matches; memory_management is set exactly when
\* the memory categories, each contributing min(2 * count, 10), total at least
\* 20, and otherwise the issue "Insufficient memory management patterns" is
\* recorded; caching_strategy is set exactly when the caching categories, each
\* contributing min(count, 5), total at least 5.
C23_CountModeTotals ==
  (tool = "vpa" /\ first_run_returned) =>
    /\ dict_get(results.performance_patterns, "memory_management") <=> memory_total(tree) >= 20
    /\ listed(results.issues, "Insufficient memory management patterns") <=> memory_total(tree) < 20
    /\ dict_get(results.performance_patterns, "caching_strategy") <=> cache_total(tree) >= 5

\* C23, its case: a scan that set memory_management and in which the caching
\* categories total exactly the 5 that set caching_strategy.
C23_Witness ==
  /\ tool = "vpa" /\ first_run_returned
  /\ dict_get(results.performance_patterns, "memory_management")
  /\ cache_total(tree) = 5
  /\ dict_get(results.performance_patterns, "caching_strategy")

\* ---- C24: the stages of a run happen in order and once: every issue and
\* recommendation is generated before report formatting begins, and no later
\* stage writes back into the output of an earlier one.  For
\* voice_performance_analyzer.py: a print_results step finds the lists of
\* issues and recommendations complete and leaves them, and the score and the
\* estimate, as the analysis stored them.
C24_NothingGeneratedWhilePrinting ==
  [][(tool = "vpa" /\ pc \in {"returned", "printed"} /\ pc' = "printed") =>
       /\ results'.recommendations = results.recommendations
       /\ results'.issues = results.issues
       /\ results'.performance_score = results.performance_score
       /\ results'.voice_response_time = results.voice_response_time]_vars

\* the band that the text report of performance_audit.py shows beside the
\* overall score
label == stdout.lines[1].text

\* ---- C25: the text report of performance_audit.py labels the overall score
\* EXCELLENT if and only if it is at least 90, GOOD iff it is at least 80 and
\* below 90, FAIR iff it is at least 70 and below 80, NEEDS IMPROVEMENT iff it
\* is below 70 (overall_score in tenths); so the exit status is 0 exactly when
\* the label is not NEEDS IMPROVEMENT.
C25_LabelByThresholdTable ==
  (tool = "pa" /\ pc \in {"printed", "exited"} /\ stdout.format = "text") =>
    /\ label = "EXCELLENT" <=> results.overall_score >= 900
    /\ label = "GOOD" <=> (results.overall_score >= 800 /\ results.overall_score < 900)
    /\ label = "FAIR" <=> (results.overall_score >= 700 /\ results.overall_score < 800)
    /\ label = "NEEDS IMPROVEMENT" <=> results.overall_score < 700
    /\ pc = "exited" => (exit_code = 0 <=> label # "NEEDS IMPROVEMENT")

\* C25, its case: the process has ended after a text report of a score of
\* exactly 70.0, labelled FAIR, with status 0.
C25_Witness ==
  /\ tool = "pa" /\ pc = "exited" /\ stdout.format = "text"
  /\ results.overall_score = 700
  /\ label = "FAIR"
  /\ exit_code = 0

\* the required files that the project directory lacks
missing_files == {i \in DOMAIN required_files : required_files[i] \notin tree.files}

\* the check of validate_architecture.py has been performed
performed(check) == listed(results.checks_performed, check)

\* ---- C26: in validate_architecture.py valid is false if and only if the
\* errors list is non-empty, at every point of a run: only a missing required
\* file or a matched credential pattern appends an error and clears valid,
\* warnings and recommendations never change valid, valid never returns to
\* true, and the exit code is 0 exactly when errors is empty.
C26_ValidIffNoErrors ==
  /\ [](tool = "av" =>
         /\ results.valid <=> results.errors = <<>>
         /\ Len(results.errors) =
              (IF performed("technology_stack") THEN Cardinality(missing_files) ELSE 0)
              + (IF performed("security_patterns") THEN Cardinality(tree.credentials) ELSE 0)
         /\ pc = "exited" => (exit_code = 0 <=> results.errors = <<>>))
  /\ [][tool = "av" =>
          /\ ~results.valid => ~results'.valid
          /\ results'.errors = results.errors => results'.valid = results.valid]_vars

\* C26, its case: the project has every required file, a credential pattern
\* matched, warnings and recommendations were appended after that, and the
\* process has ended with status 1.
C26_Witness ==
  /\ tool = "av" /\ pc = "exited"
  /\ missing_files = {}
  /\ Len(results.errors) = 1
  /\ results.warnings # <<>> /\ results.recommendations # <<>>
  /\ ~results.valid
  /\ exit_code = 1

\* the overall result of brazilian_compliance_validator.py for the category
\* scores of r with the score of category c raised to s
with_score(r, c, s) ==
  _calculate_overall_score([r EXCEPT !.brazilian_compliance[c].score = s, !.valid = TRUE])

\* ---- C27: in brazilian_compliance_validator.py the overall result is monotone
\* in the category scores: with the other category scores held fixed, raising
\* one category's score never lowers compliance_score and never turns a valid
\* result into an invalid one.
C27_MonotoneInCategoryScores ==
  (tool = "bcv" /\ first_run_returned) =>
    \A i \in DOMAIN bcv_categories :
      \A s \in (results.brazilian_compliance[bcv_categories[i]].score + 1)..100 :
        /\ with_score(results, bcv_categories[i], s).compliance_score >= results.compliance_score
        /\ results.valid => with_score(results, bcv_categories[i], s).valid

\* how many flags of the dictionary are set
flags(d) == Cardinality({i \in DOMAIN d : d[i].value})

\* the points, in halves, that the flags and the optimizations found earn
earned(r) ==
  Min(16 * flags(r.performance_patterns), 80) + Min(15 * flags(r.brazilian_patterns), 60)
  + 2 * Min(4 * Len(r.optimizations_found), 20)

\* the issues the analyses recorded: all but the issue of the missed target
recorded(r) ==
  SelectSeq(r.issues, LAMBDA x : x # exceeds_target_by(r.voice_response_time - r.target_ms))

\* ---- C28: in voice_performance_analyzer.py the 10-point no-issues bonus is
\* part of performance_score if and only if the issues list is empty when the
\* score is calculated; the issue of the missed target is appended after the
\* score and the estimate are fixed and changes neither, so a final Result may
\* hold a non-empty issues list together with the bonus.  (performance_score
\* is held in halves of a point.)
C28_BonusIffNoIssueRecorded ==
  (tool = "vpa" /\ pc = "returned") =>
    /\ recorded(results) = <<>> => results.performance_score = earned(results) + 2 * 10
    /\ recorded(results) # <<>> => results.performance_score = earned(results)
    /\ results.voice_response_time = response_time(results.performance_score)

\* C28, its case: the only issue of the Result is the missed target, and the
\* score holds the bonus.
C28_Witness ==
  /\ tool = "vpa" /\ pc = "returned"
  /\ results.issues = <<exceeds_target_by(results.voice_response_time - results.target_ms)>>
  /\ results.performance_score = earned(results) + 2 * 10

\* the categories that --check names: all four when the option is left out
named == IF args = <<>> THEN bcv_categories ELSE args

\* the label of a category in its warning
bcv_label(c) ==
  CASE c = "lgpd" -> "LGPD" [] c = "pix" -> "PIX"
    [] c = "openbanking" -> "Open Banking" [] c = "security" -> "Security"

\* ---- C29: in brazilian_compliance_validator.py validate_all(checks) runs
\* exactly the named categories in the order given, all four when none is
\* named: a category that is not named keeps score 0 and an empty issues list
\* and adds no warning, and checks_performed holds exactly one entry per
\* category run, in run order, with no category listed twice.
C29_RunsExactlyTheNamedChecks ==
  (tool = "bcv" /\ first_run_returned) =>
    /\ results.checks_performed = named
    /\ \A i \in DOMAIN bcv_categories :
         ~listed(named, bcv_categories[i]) =>
           /\ results.brazilian_compliance[bcv_categories[i]].score = 0
           /\ results.brazilian_compliance[bcv_categories[i]].issues = <<>>
    /\ \A i \in DOMAIN results.warnings : \E j \in DOMAIN named :
         <<results.warnings[i]>> =
           bcv_warning(bcv_label(named[j]), results.brazilian_compliance[named[j]].score)
    /\ \A i, j \in DOMAIN results.checks_performed :
         i # j => results.checks_performed[i] # results.checks_performed[j]

\* the rules of category c whose issue the Result lists
reported(r, c) == SelectSeq(cv_rules(c), LAMBDA rule : listed(r[c].issues, rule.issue))

\* ---- C30: in compliance-validator.py, after one validate_project call on a
\* fresh validator, every category has issues and recommendations lists of
\* equal length, one pair per unsatisfied check, and its score equals 100
\* minus the sum of the weights of the checks that produced an issue; so a
\* category scores 100 if and only if its issues list is empty.
C30_ScoreIsHundredMinusIssueWeights ==
  (tool = "cv" /\ first_run_returned) =>
    \A i \in DOMAIN cv_categories :
      LET c == cv_categories[i] IN
      /\ Len(results[c].issues) = Len(results[c].recommendations)
      /\ results[c].issues = [k \in DOMAIN reported(results, c) |-> reported(results, c)[k].issue]
      /\ results[c].recommendations =
           [k \in DOMAIN reported(results, c) |-> reported(results, c)[k].recommendation]
      /\ results[c].score =
           100 - Sum([k \in DOMAIN reported(results, c) |-> reported(results, c)[k].weight])
      /\ results[c].score = 100 <=> results[c].issues = <<>>

\* C30, its case: a scan left a category with some checks satisfied and some
\* not, its score strictly between 0 and 100.
C30_Witness ==
  /\ tool = "cv" /\ first_run_returned
  /\ \E i \in DOMAIN cv_categories :
       /\ results[cv_categories[i]].issues # <<>>
       /\ results[cv_categories[i]].score > 0
       /\ results[cv_categories[i]].score < 100
=============================================================================
